---- MODULE Spec2Model ----
(***************************************************************************)
(* A model of XOrm, the session / two-tier cache / commit pipeline layer   *)
(* of eframework-org/GO.CRUD.                                              *)
(*                                                                         *)
(* One registered model type is followed.  A row is a primary key and one  *)
(* persisted field `val`.  An instance (IModel) is [val, valid]; the key   *)
(* is the index under which it is stored.  Pointer identity is kept where  *)
(* the code depends on it: the session object's ptr is the instance the    *)
(* caller holds, so an in-place mutation by the caller is a change of the  *)
(* session object's ptr; global entries and raw are always clones.         *)
(***************************************************************************)
EXTENDS Integers, Sequences, FiniteSets, TLC

\* ------------------------------------------------------------------ bounds
NumG == 2
MaxKey == 2
MaxVal == 2
MaxOps == 2
EnvOps == 1
MaxSess == 2

Gids == 1..NumG
Keys == 1..MaxKey
Vals == 1..MaxVal
Models == {"User"}

\* commitQueueCount (Orm/Commit/Queue): the number of commit queues.
commitQueueCount == 2
Queues == 0..(commitQueueCount - 1)

\* commitBatch.submit, Flush: the queue of a goroutine id.
QueueOf(g) == g % commitQueueCount

\* ------------------------------------------------------------- conditions
\* A *Condition is opaque: nil (no condition), or a predicate on val.
NoCond == [kind |-> "nil"]
NoClear == [kind |-> "none"]
Conds == {[kind |-> "eq", val |-> v] : v \in Vals}

\* Model.Matchs: no condition matches every instance.
Matchs(val, cond) == cond.kind = "nil" \/ (cond.kind = "eq" /\ val = cond.val)

\* ------------------------------------------------------------ partial maps
EmptyMap == [x \in {} |-> TRUE]
Put(f, k, v) == [x \in (DOMAIN f) \cup {k} |-> IF x = k THEN v ELSE f[x]]
Del(f, k) == [x \in (DOMAIN f) \ {k} |-> f[x]]
Has(f, k) == k \in DOMAIN f

VARIABLES
    meta,      \* getModelMeta: registered / cache / writable of each model
    remote,    \* the remote table: model -> (key -> val)
    gcache,    \* globalCacheMap: model -> (key -> instance), partial in model
    glist,     \* globalListMap: the models listed globally
    glock,     \* globalLockMap: the models that hold a WaitGroup
    gincre,    \* globalIncreMap: model -> current maximum (primary key column)
    ctx,       \* contextMap: gid -> "none" | "rw" | "ro"
    scache,    \* sessionCacheMap: gid -> model -> (key -> sessionObject)
    slist,     \* sessionListMap: gid -> the models listed in the session
    rd,        \* a Read/List parked in globalWait, per gid
    queues,    \* commitQueues: queue -> sequence of batches
    worker,    \* per queue: the batch being pushed, as the entries left to handle
    fsig,      \* commitFlushWait: queue -> the flush requests in the channel
    fl,        \* the Flush call of each gid
    fbusy,     \* commitFlushSig: a Flush(-1) is running
    last,      \* per gid: its last API call and what it returned
    left,      \* API calls each goroutine may still make
    nsess,     \* contextID: sessions started so far
    closeSig,          \* commitCloseSig: 1 once Close has won its compare-and-swap
    commitBatchCount,  \* Orm/Commit/Queue/Capacity: the capacity of each queue
    commitCounters,    \* per queue: the objects handled so far
    pc,        \* per gid: where it stands inside submit, Close, Dump or Incre
    wg         \* the WaitGroups of globalLockMap, with their counters

vars == <<meta, remote, gcache, glist, glock, gincre, ctx, scache, slist, rd,
          queues, worker, fsig, fl, fbusy, last, left, nsess,
          closeSig, commitBatchCount, commitCounters, pc, wg>>

\* --------------------------------------------------------------- instances
Inst(v, ok) == [val |-> v, valid |-> ok]

\* Model.Clone: a copy of the fields, always valid.
Clone(inst) == Inst(inst.val, TRUE)

\* A freshly constructed probe (Ctor): zero fields, isValid = false.
Probe == Inst(0, FALSE)

\* sessionObjectPool.Get(): a reset sessionObject.
NewSobj(inst) ==
    [ptr |-> inst, raw |-> inst.val, write |-> 0,
     create |-> FALSE, delete |-> FALSE, clear |-> NoClear]

\* sessionObject.isWritable(status): unmarked -> 1|2, 1 -> 2 on true, 2 stays.
isWritable(sobj, status) ==
    CASE sobj.write = 0 -> [sobj EXCEPT !.write = IF status THEN 2 ELSE 1]
      [] sobj.write = 1 /\ status -> [sobj EXCEPT !.write = 2]
      [] OTHER -> sobj

\* setSessionCache on the key map of one (gid, model).  `same` says that the
\* instance passed is the pointer the session object already holds.
setSessionCache(smap, k, inst, same) ==
    IF ~Has(smap, k) THEN Put(smap, k, NewSobj(inst))
    ELSE IF ~same THEN Put(smap, k, [smap[k] EXCEPT !.ptr = inst, !.raw = inst.val])
    ELSE smap

\* setGlobalCache: LoadOrStore of the model's map, then LoadOrStore of the key;
\* an entry already present is kept (LoadOrStore as on a sync.Map).
setGlobalCache(gc, m, k, inst) ==
    LET gm == IF Has(gc, m) THEN gc[m] ELSE EmptyMap
    IN  Put(gc, m, IF Has(gm, k) THEN gm ELSE Put(gm, k, inst))

\* getGlobalCache(model) as a key map (nil is the empty map for lookups).
GMap(m) == IF Has(gcache, m) THEN gcache[m] ELSE EmptyMap
SMap(g, m) == scache[g][m]

\* ------------------------------------------------------------ bookkeeping
\* What the last API call was and what it returned: ok says the preamble
\* passed, rem that a remote read call was issued, src the tier that answered,
\* res the instances returned.
\* Where the goroutine stands in the sequence Write(x) [Delete(x) or a Clear
\* that matches x] Defer Flush
\* Watch Read(x's key), or in the sequence Write(x) Defer Watch Delete(x) Defer
\* Flush: the call just made, after the stage c it had reached.
NoChain == [st |-> "none"]

FlushCovers(g, tgt) == tgt = -1 \/ QueueOf(tgt) = QueueOf(g)

ChainNext(c, op, g, k, cond, ok, res) ==
    CASE op = "Write" /\ ok ->
           [st |-> "written", kind |-> "write", k |-> k,
            v |-> (CHOOSE r \in res : TRUE).val, all |-> FALSE]
      [] op = "Mutate" /\ c.st = "written" /\ c.kind = "write" /\ c.k = k ->
           [c EXCEPT !.v = (CHOOSE r \in res : TRUE).val]
      [] op = "Delete" /\ ok /\ c.st = "written" /\ c.k = k ->
           [c EXCEPT !.kind = "delete"]
      [] op = "Clear" /\ ok /\ c.st = "written" /\ c.kind = "write" /\ Matchs(c.v, cond) ->
           [c EXCEPT !.kind = "clear"]
      [] op = "Defer" /\ c.st = "written" -> [c EXCEPT !.st = "deferred"]
      [] op = "Flush" /\ c.st = "deferred" ->
           IF ok /\ FlushCovers(g, k)
           THEN [c EXCEPT !.st = "flushed", !.all = (k = -1)] ELSE c
      [] op = "Watch" /\ c.st = "flushed" -> [c EXCEPT !.st = "fresh"]
      [] op = "Watch" /\ c.st = "deferred" /\ c.kind = "write" -> [c EXCEPT !.st = "again"]
      [] op = "Delete" /\ ok /\ c.st = "again" /\ c.k = k -> [c EXCEPT !.st = "redeleted"]
      [] op = "Defer" /\ c.st = "redeleted" -> [c EXCEPT !.st = "redeferred"]
      [] op = "Flush" /\ c.st = "redeferred" ->
           IF ok /\ FlushCovers(g, k) THEN [c EXCEPT !.st = "reflushed"] ELSE c
      [] op = "Read" /\ cond = NoCond /\ c.st = "fresh" /\ c.k = k ->
           [c EXCEPT !.st = "read"]
      [] OTHER -> NoChain

Api(op, g, k, cond, ok, rem, src, res) ==
    [op |-> op, g |-> g, k |-> k, cond |-> cond, ok |-> ok, rem |-> rem,
     src |-> src, res |-> res, n |-> left[g],
     chain |-> ChainNext(last[g].chain, op, g, k, cond, ok, res)]

Ret(k, inst) == [k |-> k, val |-> inst.val, valid |-> inst.valid]

NoApi ==
    [op |-> "none", g |-> 0, k |-> 0, cond |-> NoCond, ok |-> FALSE, rem |-> FALSE,
     src |-> "none", res |-> {}, n |-> 0, chain |-> NoChain]
NoRd == [kind |-> "none"]
IdleFl == [st |-> "idle"]
IdleWorker == [mode |-> "idle", todo |-> <<>>, fwg |-> 0]

IdlePc == [st |-> "idle"]

\* The WaitGroups made by globalLock: `map` is globalLockMap (0: no record for
\* the model), `cnt` the counter of each WaitGroup, `used` how many were made,
\* `owed` the globalLock calls per model whose globalUnlock is still to come.
MaxWg == 2
WgIds == 1..MaxWg
NoWg ==
    [map |-> [m \in Models |-> 0], cnt |-> [i \in WgIds |-> 0], used |-> 0,
     owed |-> [m \in Models |-> 0]]

\* The goroutine is not inside a call.
Idle(g) == rd[g] = NoRd /\ fl[g] = IdleFl /\ pc[g] = IdlePc

\* cacheDumpWait: a Dump is between its Add(1) and its Done.
Dumping == \E h \in Gids : pc[h].st = "dump"

\* The goroutine can enter a call that starts with cacheDumpWait.Wait().
Free(g) == Idle(g) /\ ~Dumping

CanCall(g) == Free(g) /\ left[g] > 0

\* The shared preamble of the mutating calls.
PreambleOK(g, m) == ctx[g] = "rw" /\ meta[m].reg /\ meta[m].writable

\* The preamble of Read and List.
ReadableOK(g, m) == ctx[g] # "none" /\ meta[m].reg

MetaChoices ==
    {[reg |-> TRUE, cache |-> c, writable |-> w] : c \in BOOLEAN, w \in BOOLEAN}
    \cup {[reg |-> FALSE, cache |-> FALSE, writable |-> FALSE]}

\* Remote tables, one of each shape up to a renaming of keys and values: empty,
\* one row, two rows that agree on val, two rows that differ.
RemoteChoices ==
    {EmptyMap, [k \in {1} |-> 1], [k \in Keys |-> 1], [k \in Keys |-> IF k = 1 THEN 1 ELSE MaxVal]}

\* The state after construction, for a choice of registrations, remote tables
\* and call budgets.
InitQueued(metas, remotes, quota, cap, qs) ==
    /\ meta \in [Models -> metas]
    /\ remote \in [Models -> remotes]
    /\ gcache = EmptyMap
    /\ glist = {}
    /\ glock = {}
    /\ gincre = EmptyMap
    /\ ctx = [g \in Gids |-> "none"]
    /\ scache = [g \in Gids |-> [m \in Models |-> EmptyMap]]
    /\ slist = [g \in Gids |-> {}]
    /\ rd = [g \in Gids |-> NoRd]
    /\ queues = qs
    /\ worker = [q \in Queues |-> IdleWorker]
    /\ fsig = [q \in Queues |-> <<>>]
    /\ fl = [g \in Gids |-> IdleFl]
    /\ fbusy = FALSE
    /\ last = [g \in Gids |-> NoApi]
    /\ left = quota
    /\ nsess = 0
    /\ closeSig = 0
    /\ commitBatchCount = cap
    /\ commitCounters = [q \in Queues |-> 0]
    /\ pc = [g \in Gids |-> IdlePc]
    /\ wg = NoWg

\* A capacity no queue reaches: a session submits one batch at most.
RoomyQueue == MaxSess

\* Every queue starts empty.
InitCap(metas, remotes, quota, cap) ==
    InitQueued(metas, remotes, quota, cap, [q \in Queues |-> <<>>])

InitWith(metas, remotes, quota) == InitCap(metas, remotes, quota, RoomyQueue)

WritableMetas == {[reg |-> TRUE, cache |-> c, writable |-> TRUE] : c \in BOOLEAN}

Init == InitWith(WritableMetas, RemoteChoices, [g \in Gids |-> IF g = 1 THEN MaxOps ELSE EnvOps])

\* ------------------------------------------------------------------ Watch
Watch(g, w) ==
    /\ Free(g)
    /\ ctx[g] = "none"
    /\ nsess < MaxSess
    /\ ctx' = [ctx EXCEPT ![g] = IF w THEN "rw" ELSE "ro"]
    /\ nsess' = nsess + 1
    /\ last' = [last EXCEPT ![g] = Api("Watch", g, 0, NoCond, TRUE, FALSE, "none", {})]
    /\ UNCHANGED <<closeSig, commitBatchCount, commitCounters, pc, meta, wg, remote, gcache, glist, glock, gincre, scache, slist,
                   rd, queues, worker, fsig, fl, fbusy, left>>

\* ------------------------------------------------------------------ Write
\* The instance passed to a call: the pointer the session already holds for
\* the key (held), or a new instance.
Held(g, m, k) == Has(SMap(g, m), k)

WriteInst(g, m, k, v, held) ==
    IF held THEN [SMap(g, m)[k].ptr EXCEPT !.valid = TRUE] ELSE Inst(v, TRUE)

WriteSession(smap, k, inst, held) ==
    LET s1 == IF held THEN Put(smap, k, [smap[k] EXCEPT !.ptr = inst]) ELSE smap
        s2 == setSessionCache(s1, k, inst, held)
    IN  Put(s2, k, [s2[k] EXCEPT !.create = TRUE, !.delete = FALSE, !.clear = NoClear])

WriteGlobal(m, k, inst) ==
    IF meta[m].cache THEN setGlobalCache(gcache, m, k, Clone(inst)) ELSE gcache

Write(g, m, k, v, held) ==
    /\ CanCall(g)
    /\ held => (Held(g, m, k) /\ v = SMap(g, m)[k].ptr.val)
    /\ left' = [left EXCEPT ![g] = @ - 1]
    /\ IF PreambleOK(g, m)
       THEN LET inst == WriteInst(g, m, k, v, held)
            IN  /\ gcache' = WriteGlobal(m, k, inst)
                /\ scache' = [scache EXCEPT ![g][m] = WriteSession(@, k, inst, held)]
                /\ last' = [last EXCEPT ![g] = Api("Write", g, k, NoCond, TRUE, FALSE, "none", {Ret(k, inst)})]
       ELSE /\ last' = [last EXCEPT ![g] = Api("Write", g, k, NoCond, FALSE, FALSE, "none", {})]
            /\ UNCHANGED <<gcache, scache>>
    /\ UNCHANGED <<closeSig, commitBatchCount, commitCounters, pc, meta, wg, remote, glist, glock, gincre, ctx, slist, rd, queues,
                   worker, fsig, fl, fbusy, nsess>>

\* A Delete that leaves the instance valid.
DeleteInstStaysValid(g, m, k, held) ==
    IF held THEN SMap(g, m)[k].ptr ELSE Inst(0, TRUE)

\* A Delete preamble without the ctx.writable test.
DeleteOKAnyContext(g, m) == ctx[g] # "none" /\ meta[m].reg /\ meta[m].writable

\* ----------------------------------------------------------------- Delete
DeleteInst(g, m, k, held) ==
    IF held THEN [SMap(g, m)[k].ptr EXCEPT !.valid = FALSE] ELSE Inst(0, FALSE)

\* gobj.IsValid(false) on the global entry, if there is one.
DeleteGlobal(m, k) ==
    IF meta[m].cache /\ Has(gcache, m) /\ Has(gcache[m], k)
    THEN [gcache EXCEPT ![m][k].valid = FALSE]
    ELSE gcache

DeleteSession(smap, k, inst, held) ==
    LET s1 == IF held THEN Put(smap, k, [smap[k] EXCEPT !.ptr = inst]) ELSE smap
        s2 == setSessionCache(s1, k, inst, held)
    IN  Put(s2, k, [s2[k] EXCEPT !.delete = TRUE, !.create = FALSE, !.clear = NoClear])

DeleteOK(g, m) == PreambleOK(g, m)

Delete(g, m, k, held) ==
    /\ CanCall(g)
    /\ held => Held(g, m, k)
    /\ left' = [left EXCEPT ![g] = @ - 1]
    /\ IF DeleteOK(g, m)
       THEN LET inst == DeleteInst(g, m, k, held)
            IN  /\ gcache' = DeleteGlobal(m, k)
                /\ scache' = [scache EXCEPT ![g][m] = DeleteSession(@, k, inst, held)]
                /\ last' = [last EXCEPT ![g] = Api("Delete", g, k, NoCond, TRUE, FALSE, "none", {Ret(k, inst)})]
       ELSE /\ last' = [last EXCEPT ![g] = Api("Delete", g, k, NoCond, FALSE, FALSE, "none", {})]
            /\ UNCHANGED <<gcache, scache>>
    /\ UNCHANGED <<closeSig, commitBatchCount, commitCounters, pc, meta, wg, remote, glist, glock, gincre, ctx, slist, rd, queues,
                   worker, fsig, fl, fbusy, nsess>>

\* ----------------------------------------------------------------- Mutate
\* The caller changes a field of an instance it got from Read, List or Write.
Mutate(g, m, k, v) ==
    /\ CanCall(g)
    /\ ctx[g] # "none"
    /\ Held(g, m, k)
    /\ SMap(g, m)[k].ptr.valid
    /\ SMap(g, m)[k].ptr.val # v
    /\ left' = [left EXCEPT ![g] = @ - 1]
    /\ scache' = [scache EXCEPT ![g][m][k].ptr.val = v]
    /\ last' = [last EXCEPT ![g] = Api("Mutate", g, k, NoCond, TRUE, FALSE, "none", {Ret(k, Inst(v, TRUE))})]
    /\ UNCHANGED <<closeSig, commitBatchCount, commitCounters, pc, meta, wg, remote, gcache, glist, glock, gincre, ctx, slist, rd,
                   queues, worker, fsig, fl, fbusy, nsess>>

\* A lookup that passes over the session tier.
ExactLocalSkipsSession(g, m, k, w) ==
    LET sm == SMap(g, m)
        gm == GMap(m)
    IN  IF meta[m].cache /\ Has(gm, k)
        THEN IF ~gm[k].valid
             THEN [hit |-> TRUE, src |-> "global", inst |-> Probe, smap |-> sm]
             ELSE LET s1 == setSessionCache(sm, k, Clone(gm[k]), FALSE)
                  IN  [hit |-> TRUE, src |-> "global", inst |-> Clone(gm[k]),
                       smap |-> Put(s1, k, isWritable(s1[k], w))]
        ELSE [hit |-> FALSE, src |-> "none", inst |-> Probe, smap |-> sm]

\* ------------------------------------------------------------------- Read
\* Exact lookup, session and global tiers (context_read.go 49-83): hit says
\* that a tier answered; inst is what Read returns; smap the session map after.
ExactLocal(g, m, k, w) ==
    LET sm == SMap(g, m)
        gm == GMap(m)
    IN  IF Has(sm, k)
        THEN IF ~sm[k].ptr.valid
             THEN [hit |-> TRUE, src |-> "session", inst |-> Probe, smap |-> sm]
             ELSE [hit |-> TRUE, src |-> "session", inst |-> sm[k].ptr,
                   smap |-> Put(sm, k, isWritable(sm[k], w))]
        ELSE IF meta[m].cache /\ Has(gm, k)
        THEN IF ~gm[k].valid
             THEN [hit |-> TRUE, src |-> "global", inst |-> Probe, smap |-> sm]
             ELSE LET s1 == setSessionCache(sm, k, Clone(gm[k]), FALSE)
                  IN  [hit |-> TRUE, src |-> "global", inst |-> Clone(gm[k]),
                       smap |-> Put(s1, k, isWritable(s1[k], w))]
        ELSE [hit |-> FALSE, src |-> "none", inst |-> Probe, smap |-> sm]

\* Exact lookup, remote tier (context_read.go 84-93), after globalWait.
RemoteExact(g, m, k) ==
    IF Has(remote[m], k)
    THEN LET inst == Inst(remote[m][k], TRUE)
         IN  /\ gcache' = IF meta[m].cache
                          THEN setGlobalCache(gcache, m, k, Clone(inst))
                          ELSE gcache
             /\ scache' = [scache EXCEPT ![g][m] = setSessionCache(@, k, inst, FALSE)]
             /\ last' = [last EXCEPT ![g] = Api("Read", g, k, NoCond, TRUE, TRUE, "remote", {Ret(k, inst)})]
    ELSE /\ last' = [last EXCEPT ![g] = Api("Read", g, k, NoCond, TRUE, TRUE, "none", {Ret(k, Probe)})]
         /\ UNCHANGED <<gcache, scache>>

\* A scan that does not skip the entries marked invalid.
AnyMatch(vals, cond) ==
    {k \in DOMAIN vals : Matchs(vals[k].val, cond)}

\* The valid entries of a key map that match cond.
ValidMatch(vals, cond) ==
    {k \in DOMAIN vals : vals[k].valid /\ Matchs(vals[k].val, cond)}

SPtrs(sm) == [k \in DOMAIN sm |-> sm[k].ptr]
ValidPtrs(sm) == [k \in {x \in DOMAIN sm : sm[x].ptr.valid} |-> sm[k].ptr]

\* Fuzzy lookup, remote tier (context_read.go 126-180), after globalWait: the
\* remote returns one of the rows that match, or none.
RemoteFuzzyRow(g, m, cond, w, k) ==
    LET sm == SMap(g, m)
        row == Inst(remote[m][k], TRUE)
        inS == Has(sm, k)
        isSCache == inS /\ sm[k].ptr.valid /\ Matchs(row.val, cond)
        model1 == IF isSCache THEN sm[k].ptr ELSE row
        sm1 == IF isSCache THEN Put(sm, k, isWritable(sm[k], w)) ELSE sm
        hasG == meta[m].cache /\ Has(gcache, m)
        inG == hasG /\ Has(gcache[m], k)
    IN  IF inS /\ ~sm[k].ptr.valid
        THEN /\ last' = [last EXCEPT ![g] = Api("Read", g, k, cond, TRUE, TRUE, "session", {Ret(k, Inst(row.val, FALSE))})]
             /\ UNCHANGED <<gcache, scache>>
        ELSE IF inG /\ ~gcache[m][k].valid
        THEN \* model.IsValid(false): model is the session pointer when isSCache
             /\ scache' = [scache EXCEPT ![g][m] =
                    IF isSCache THEN Put(sm1, k, [sm1[k] EXCEPT !.ptr.valid = FALSE]) ELSE sm1]
             /\ last' = [last EXCEPT ![g] = Api("Read", g, k, cond, TRUE, TRUE, "global", {Ret(k, Inst(model1.val, FALSE))})]
             /\ UNCHANGED gcache
        ELSE IF inG /\ ~isSCache
        THEN LET c == Clone(gcache[m][k])
                 s2 == setSessionCache(sm1, k, c, FALSE)
             IN  /\ scache' = [scache EXCEPT ![g][m] = Put(s2, k, isWritable(s2[k], w))]
                 /\ last' = [last EXCEPT ![g] = Api("Read", g, k, cond, TRUE, TRUE, "global", {Ret(k, c)})]
                 /\ UNCHANGED gcache
        ELSE /\ gcache' = IF hasG /\ ~inG
                          THEN setGlobalCache(gcache, m, k, Clone(model1))
                          ELSE gcache
             /\ scache' = [scache EXCEPT ![g][m] = setSessionCache(sm1, k, model1, isSCache)]
             /\ last' = [last EXCEPT ![g] = Api("Read", g, k, cond, TRUE, TRUE,
                            IF isSCache THEN "session" ELSE "remote", {Ret(k, model1)})]

RemoteFuzzy(g, m, cond, w) ==
    LET rows == {k \in DOMAIN remote[m] : Matchs(remote[m][k], cond)}
    IN  IF rows = {}
        THEN /\ last' = [last EXCEPT ![g] = Api("Read", g, 0, cond, TRUE, TRUE, "none", {Ret(0, Probe)})]
             /\ UNCHANGED <<gcache, scache>>
        ELSE \E k \in rows : RemoteFuzzyRow(g, m, cond, w, k)

\* A tier choice that ignores the session's listed flag.
FuzzyTierUnlisted(g, m) == IF m \in glist THEN "global" ELSE "remote"

\* Where a Read or List looks first: the listed flags decide for a fuzzy one.
FuzzyTier(g, m) ==
    IF m \in slist[g] THEN "session" ELSE IF m \in glist THEN "global" ELSE "remote"

\* Fuzzy lookup in the listed session (context_read.go 95-109): the first
\* valid entry that matches, in the order of a concurrent range.
FuzzySession(g, m, cond, w) ==
    LET sm == SMap(g, m)
        hits == ValidMatch(SPtrs(sm), cond)
    IN  /\ UNCHANGED gcache
        /\ IF hits = {}
           THEN /\ last' = [last EXCEPT ![g] = Api("Read", g, 0, cond, TRUE, FALSE, "none", {Ret(0, Probe)})]
                /\ UNCHANGED scache
           ELSE \E k \in hits :
                /\ scache' = [scache EXCEPT ![g][m][k] = isWritable(@, w)]
                /\ last' = [last EXCEPT ![g] = Api("Read", g, k, cond, TRUE, FALSE, "session", {Ret(k, sm[k].ptr)})]

\* Fuzzy lookup in the listed global tier (context_read.go 110-125).
FuzzyGlobal(g, m, cond, w) ==
    LET gm == GMap(m)
        hits == ValidMatch(gm, cond)
    IN  /\ UNCHANGED gcache
        /\ IF hits = {}
           THEN /\ last' = [last EXCEPT ![g] = Api("Read", g, 0, cond, TRUE, FALSE, "none", {Ret(0, Probe)})]
                /\ UNCHANGED scache
           ELSE \E k \in hits :
                LET c == Clone(gm[k])
                    s1 == setSessionCache(SMap(g, m), k, c, FALSE)
                IN  /\ scache' = [scache EXCEPT ![g][m] = Put(s1, k, isWritable(s1[k], w))]
                    /\ last' = [last EXCEPT ![g] = Api("Read", g, k, cond, TRUE, FALSE, "global", {Ret(k, c)})]

\* globalWait: a WaitGroup is present for the model, the caller parks on it.
MustWait(m) == m \in glock

Park(g, kind, m, k, cond, w) ==
    /\ rd' = [rd EXCEPT ![g] = [kind |-> kind, m |-> m, k |-> k, cond |-> cond,
                                w |-> w, rel |-> FALSE]]
    /\ UNCHANGED <<gcache, scache, last>>

\* Read(model, writable): exact lookup.
ReadExact(g, m, k, w) ==
    /\ CanCall(g)
    /\ left' = [left EXCEPT ![g] = @ - 1]
    /\ IF ~ReadableOK(g, m)
       THEN /\ last' = [last EXCEPT ![g] = Api("Read", g, k, NoCond, FALSE, FALSE, "none", {Ret(k, Probe)})]
            /\ UNCHANGED <<gcache, scache, rd>>
       ELSE LET loc == ExactLocal(g, m, k, w)
            IN  IF loc.hit
                THEN /\ scache' = [scache EXCEPT ![g][m] = loc.smap]
                     /\ last' = [last EXCEPT ![g] = Api("Read", g, k, NoCond, TRUE, FALSE, loc.src, {Ret(k, loc.inst)})]
                     /\ UNCHANGED <<gcache, rd>>
                ELSE IF MustWait(m)
                THEN Park(g, "read", m, k, NoCond, w)
                ELSE RemoteExact(g, m, k) /\ UNCHANGED rd
    /\ UNCHANGED <<closeSig, commitBatchCount, commitCounters, pc, meta, wg, remote, glist, glock, gincre, ctx, slist, queues,
                   worker, fsig, fl, fbusy, nsess>>

\* Read(model, writable, cond): fuzzy lookup.
ReadFuzzy(g, m, cond, w) ==
    /\ CanCall(g)
    /\ left' = [left EXCEPT ![g] = @ - 1]
    /\ IF ~ReadableOK(g, m)
       THEN /\ last' = [last EXCEPT ![g] = Api("Read", g, 0, cond, FALSE, FALSE, "none", {Ret(0, Probe)})]
            /\ UNCHANGED <<gcache, scache, rd>>
       ELSE CASE FuzzyTier(g, m) = "session" -> FuzzySession(g, m, cond, w) /\ UNCHANGED rd
              [] FuzzyTier(g, m) = "global" -> FuzzyGlobal(g, m, cond, w) /\ UNCHANGED rd
              [] OTHER -> IF MustWait(m)
                          THEN Park(g, "fuzzy", m, 0, cond, w)
                          ELSE RemoteFuzzy(g, m, cond, w) /\ UNCHANGED rd
    /\ UNCHANGED <<closeSig, commitBatchCount, commitCounters, pc, meta, wg, remote, glist, glock, gincre, ctx, slist, queues,
                   worker, fsig, fl, fbusy, nsess>>

\* ------------------------------------------------------------------- List
\* Restriction of a key map and the result set of its entries.
Pick(f, S) == [k \in S |-> f[k]]
Rets(f) == {Ret(k, f[k]) : k \in DOMAIN f}

\* Union of two key maps, the second one winning.
Over(f, h) == [k \in (DOMAIN f) \cup (DOMAIN h) |-> IF k \in DOMAIN h THEN h[k] ELSE f[k]]

\* List in the listed session (context_index.go 360-376); with no condition
\* the global listed flag of a cached model is set at the end (542-549).
ListSession(g, m, cond, w) ==
    LET sm == SMap(g, m)
        hits == ValidMatch(SPtrs(sm), cond)
    IN  /\ scache' = [scache EXCEPT ![g][m] =
               [k \in DOMAIN sm |-> IF k \in hits THEN isWritable(sm[k], w) ELSE sm[k]]]
        /\ last' = [last EXCEPT ![g] =
               Api("List", g, 0, cond, TRUE, FALSE, "session", Rets(Pick(SPtrs(sm), hits)))]
        /\ glist' = IF cond = NoCond /\ meta[m].cache THEN glist \cup {m} ELSE glist
        /\ UNCHANGED <<gcache, slist>>

\* List in the listed global tier (context_index.go 377-409): a session entry
\* of the same key is returned in place of the clone.
ListGlobalOut(sm, gm, k) == IF Has(sm, k) THEN sm[k].ptr ELSE Clone(gm[k])

ListGlobal(g, m, cond, w) ==
    LET sm == SMap(g, m)
        gm == GMap(m)
        hits == ValidMatch(gm, cond)
        out == [k \in hits |-> ListGlobalOut(sm, gm, k)]
        s1 == [k \in (DOMAIN sm) \cup hits |->
                  isWritable(IF Has(sm, k) THEN sm[k] ELSE NewSobj(out[k]), w)]
    IN  /\ scache' = [scache EXCEPT ![g][m] =
               [k \in DOMAIN s1 |-> IF k \in hits THEN s1[k] ELSE sm[k]]]
        /\ last' = [last EXCEPT ![g] = Api("List", g, 0, cond, TRUE, FALSE, "global", Rets(out))]
        /\ slist' = IF cond = NoCond THEN [slist EXCEPT ![g] = @ \cup {m}] ELSE slist
        /\ UNCHANGED <<gcache, glist>>

\* The rows the remote returns for cond.
RemoteRows(m, cond) == {k \in DOMAIN remote[m] : Matchs(remote[m][k], cond)}

\* Reconciliation of the remote rows (context_index.go 413-484).  For a row:
\* a session entry wins (dropped if invalid), else a global entry wins
\* (dropped if invalid), else the row enters both tiers.
RowRemoved(sm, gm, k) ==
    IF Has(sm, k) THEN ~sm[k].ptr.valid ELSE Has(gm, k) /\ ~gm[k].valid

RowOut(m, sm, gm, k) ==
    IF Has(sm, k) THEN sm[k].ptr
    ELSE IF Has(gm, k) THEN Clone(gm[k])
    ELSE Inst(remote[m][k], TRUE)

\* The session and global entries added after the reconciliation
\* (context_index.go 486-538): valid, matching, not among the rows kept.
SessionExtra(sm, cond, valids) == ValidMatch(SPtrs(sm), cond) \ valids
GlobalExtra(gm, cond, valids) == ValidMatch(gm, cond) \ valids

\* The remote branch as a record [res, smap, gmap]; with no row returned the
\* whole reconciliation is skipped (context_index.go 413).
ListRemoteCalc(g, m, cond, w) ==
    LET sm == SMap(g, m)
        gm == IF meta[m].cache THEN GMap(m) ELSE EmptyMap
        rows == RemoteRows(m, cond)
        valids1 == {k \in rows : ~RowRemoved(sm, gm, k)}
        rowOut == [k \in valids1 |-> RowOut(m, sm, gm, k)]
        fresh == {k \in valids1 : ~Has(sm, k)}
        sx == SessionExtra(sm, cond, valids1)
        gx == GlobalExtra(gm, cond, valids1 \cup sx)
        gOut == [k \in gx |-> Clone(gm[k])]
        sNew == [k \in fresh |-> isWritable(NewSobj(rowOut[k]), w)]
        sGx == [k \in gx |->
                  isWritable(setSessionCache(sm, k, gOut[k], FALSE)[k], w)]
        gNew == [k \in {x \in fresh : ~Has(gm, x)} |-> Clone(rowOut[k])]
    IN  IF rows = {}
        THEN [res |-> {}, smap |-> sm, gmap |-> GMap(m), touched |-> FALSE]
        ELSE [res |-> Rets(rowOut) \cup Rets(Pick(SPtrs(sm), sx)) \cup Rets(gOut),
              smap |-> Over(Over(sm, sNew), sGx),
              gmap |-> Over(GMap(m), gNew),
              touched |-> meta[m].cache]

ListRemote(g, m, cond, w) ==
    LET r == ListRemoteCalc(g, m, cond, w)
    IN  /\ scache' = [scache EXCEPT ![g][m] = r.smap]
        /\ gcache' = IF r.touched /\ (Has(gcache, m) \/ r.gmap # EmptyMap)
                     THEN Put(gcache, m, r.gmap) ELSE gcache
        /\ last' = [last EXCEPT ![g] = Api("List", g, 0, cond, TRUE, TRUE, "remote", r.res)]
        /\ slist' = IF cond = NoCond THEN [slist EXCEPT ![g] = @ \cup {m}] ELSE slist
        /\ glist' = IF cond = NoCond /\ meta[m].cache THEN glist \cup {m} ELSE glist

\* List(model, writable, cond).
List(g, m, cond, w) ==
    /\ CanCall(g)
    /\ left' = [left EXCEPT ![g] = @ - 1]
    /\ IF ~ReadableOK(g, m)
       THEN /\ last' = [last EXCEPT ![g] = Api("List", g, 0, cond, FALSE, FALSE, "none", {})]
            /\ UNCHANGED <<gcache, scache, slist, glist, rd>>
       ELSE CASE FuzzyTier(g, m) = "session" -> ListSession(g, m, cond, w) /\ UNCHANGED rd
              [] FuzzyTier(g, m) = "global" -> ListGlobal(g, m, cond, w) /\ UNCHANGED rd
              [] OTHER -> IF MustWait(m)
                          THEN Park(g, "list", m, 0, cond, w) /\ UNCHANGED <<slist, glist>>
                          ELSE ListRemote(g, m, cond, w) /\ UNCHANGED rd
    /\ UNCHANGED <<closeSig, commitBatchCount, commitCounters, pc, meta, wg, remote, glock, gincre, ctx, queues, worker, fsig, fl,
                   fbusy, nsess>>

\* ------------------------------------------------------------------ Count
\* The rows Count counts: the valid matching entries of the listed session,
\* else those of the listed global tier, else what Model.Count finds in the
\* remote table.
CountRows(g, m, cond) ==
    CASE FuzzyTier(g, m) = "session" ->
           Rets(Pick(SPtrs(SMap(g, m)), ValidMatch(SPtrs(SMap(g, m)), cond)))
      [] FuzzyTier(g, m) = "global" -> Rets(Pick(GMap(m), ValidMatch(GMap(m), cond)))
      [] OTHER -> {Ret(k, Inst(remote[m][k], TRUE)) : k \in RemoteRows(m, cond)}

\* Count(model, cond): no context is looked up and the remote tier is asked
\* without globalWait.  The count is the k of the record, the rows are its res.
Count(g, m, cond) ==
    /\ CanCall(g)
    /\ left' = [left EXCEPT ![g] = @ - 1]
    /\ IF ~meta[m].reg
       THEN last' = [last EXCEPT ![g] = Api("Count", g, 0, cond, FALSE, FALSE, "none", {})]
       ELSE last' = [last EXCEPT ![g] =
                Api("Count", g, Cardinality(CountRows(g, m, cond)), cond, TRUE,
                    FuzzyTier(g, m) = "remote", FuzzyTier(g, m), CountRows(g, m, cond))]
    /\ UNCHANGED <<closeSig, commitBatchCount, commitCounters, pc, meta, wg, remote, gcache,
                   glist, glock, gincre, ctx, scache, slist, rd, queues, worker, fsig,
                   fl, fbusy, nsess>>

\* ------------------------------------------------------------------ Clear
\* The key of the instance passed to Clear: a probe, primary key zero.
ClearKey == 0

\* Session entries whose instance matches cond are marked invalid.
ClearMarked(sm, cond) == {k \in DOMAIN sm : Matchs(sm[k].ptr.val, cond)}

ClearGlobalHits(m, cond) ==
    IF meta[m].cache THEN {k \in DOMAIN GMap(m) : Matchs(GMap(m)[k].val, cond)} ELSE {}

ClearGlobal(m, cond) ==
    IF ClearGlobalHits(m, cond) = {} THEN gcache
    ELSE [gcache EXCEPT ![m] =
             [k \in DOMAIN @ |-> IF k \in ClearGlobalHits(m, cond)
                                 THEN [@[k] EXCEPT !.valid = FALSE] ELSE @[k]]]

\* Clear with the instance the caller passes: `held` says that it is the
\* pointer the session already holds for key ck, else it is a fresh instance of
\* that key.  model.IsValid(false) comes first, then the scan of the session,
\* the scan of the global tier, and setSessionCache(gid, model) with the marks.
ClearSessionAt(g, m, cond, ck, held) ==
    LET sm0 == SMap(g, m)
        sm == IF held THEN [sm0 EXCEPT ![ck].ptr.valid = FALSE] ELSE sm0
        inst == IF held THEN sm[ck].ptr ELSE Probe
        marked == ClearMarked(sm, cond)
        s1 == [k \in DOMAIN sm |->
                 IF k \in marked THEN [sm[k] EXCEPT !.ptr.valid = FALSE] ELSE sm[k]]
        gx == ClearGlobalHits(m, cond) \ marked
        s2 == [k \in (DOMAIN s1) \cup gx |->
                 IF k \in gx
                 THEN LET c == Clone(GMap(m)[k])
                          e == setSessionCache(s1, k, c, FALSE)[k]
                      IN  [e EXCEPT !.ptr.valid = FALSE]
                 ELSE s1[k]]
        s3 == setSessionCache(s2, ck, inst, held /\ ck \notin gx)
    IN  Put(s3, ck, [s3[ck] EXCEPT !.clear = cond, !.create = FALSE,
                                   !.delete = FALSE])

ClearSession(g, m, cond) == ClearSessionAt(g, m, cond, ClearKey, FALSE)

ClearOK(g, m) == PreambleOK(g, m)

Clear(g, m, cond) ==
    /\ CanCall(g)
    /\ left' = [left EXCEPT ![g] = @ - 1]
    /\ IF ClearOK(g, m)
       THEN /\ gcache' = ClearGlobal(m, cond)
            /\ scache' = [scache EXCEPT ![g][m] = ClearSession(g, m, cond)]
            /\ last' = [last EXCEPT ![g] = Api("Clear", g, ClearKey, cond, TRUE, FALSE, "none", {})]
       ELSE /\ last' = [last EXCEPT ![g] = Api("Clear", g, ClearKey, cond, FALSE, FALSE, "none", {})]
            /\ UNCHANGED <<gcache, scache>>
    /\ UNCHANGED <<closeSig, commitBatchCount, commitCounters, pc, meta, wg, remote, glist, glock, gincre, ctx, slist, rd, queues,
                   worker, fsig, fl, fbusy, nsess>>

\* Clear(model, cond) with an instance of key ck as the model argument.
ClearOf(g, m, cond, ck, held) ==
    /\ CanCall(g)
    /\ held => Held(g, m, ck)
    /\ left' = [left EXCEPT ![g] = @ - 1]
    /\ IF ClearOK(g, m)
       THEN /\ gcache' = ClearGlobal(m, cond)
            /\ scache' = [scache EXCEPT ![g][m] = ClearSessionAt(g, m, cond, ck, held)]
            /\ last' = [last EXCEPT ![g] = Api("Clear", g, ck, cond, TRUE, FALSE, "none", {})]
       ELSE /\ last' = [last EXCEPT ![g] = Api("Clear", g, ck, cond, FALSE, FALSE, "none", {})]
            /\ UNCHANGED <<gcache, scache>>
    /\ UNCHANGED <<closeSig, commitBatchCount, commitCounters, pc, meta, wg, remote, glist, glock, gincre, ctx, slist, rd, queues,
                   worker, fsig, fl, fbusy, nsess>>

\* ------------------------------------------------------------------ Incre
SetMax(S) == IF S = {} THEN 0 ELSE CHOOSE x \in S : \A y \in S : y <= x

\* Model.Max on the primary key column of the remote table.
RemoteMax(m) == SetMax(DOMAIN remote[m])

IncreOK(g, m) == PreambleOK(g, m)

\* An Incre that takes the maximum from the remote at every call.
IncreNextFromRemote(m) == RemoteMax(m) + 1

\* The value stored and returned: atomic.AddInt64 on the cached counter, or
\* Model.Max plus the delta when the map has no counter yet.
IncreNext(m) == IF Has(gincre, m) THEN gincre[m] + 1 ELSE RemoteMax(m) + 1

\* Incre up to its first globalIncreMap.Load: a failed preamble returns -1, a
\* hit adds atomically and returns, a miss goes on to globalIncreMutex.
Incre(g, m) ==
    /\ CanCall(g)
    /\ left' = [left EXCEPT ![g] = @ - 1]
    /\ IF ~IncreOK(g, m)
       THEN /\ last' = [last EXCEPT ![g] = Api("Incre", g, -1, NoCond, FALSE, FALSE, "none", {})]
            /\ UNCHANGED <<gincre, pc>>
       ELSE IF Has(gincre, m)
       THEN /\ gincre' = Put(gincre, m, IncreNext(m))
            /\ last' = [last EXCEPT ![g] = Api("Incre", g, IncreNext(m), NoCond, TRUE, FALSE, "none", {})]
            /\ UNCHANGED pc
       ELSE /\ pc' = [pc EXCEPT ![g] = [st |-> "incre", m |-> m]]
            /\ UNCHANGED <<gincre, last>>
    /\ UNCHANGED <<closeSig, commitBatchCount, commitCounters, meta, wg, remote, gcache,
                   glist, glock, ctx, scache, slist, rd, queues, worker, fsig, fl,
                   fbusy, nsess>>

\* Under globalIncreMutex: the second Load, then the atomic add on a counter
\* another goroutine stored meanwhile, or Model.Max and the Store.
IncreLocked(g) ==
    /\ pc[g].st = "incre"
    /\ pc' = [pc EXCEPT ![g] = IdlePc]
    /\ gincre' = Put(gincre, pc[g].m, IncreNext(pc[g].m))
    /\ last' = [last EXCEPT ![g] = Api("Incre", g, IncreNext(pc[g].m), NoCond, TRUE,
                                       ~Has(gincre, pc[g].m), "none", {})]
    /\ UNCHANGED <<closeSig, commitBatchCount, commitCounters, meta, wg, remote, gcache,
                   glist, glock, ctx, scache, slist, rd, queues, worker, fsig, fl,
                   fbusy, left, nsess>>

\* A Defer that submits only what carries a delete or clear mark.
InBatchMarkedOnly(m, sobj) ==
    meta[m].writable /\ (sobj.delete \/ sobj.clear # NoClear)

\* A Defer that never rewrites a global entry.
DeferSyncNothing(g, m) == {}

\* A Defer that treats every context as writable.
DeferAnyContext(g) == TRUE

\* A Defer that does not compare the instance with its snapshot.
DeferUpdateUnchecked(sobj) == ~sobj.create /\ sobj.ptr.valid /\ sobj.write # 1

\* ------------------------------------------------------------------ Defer
\* What Defer decides for one session object (part_023 411-441).
DeferSkip(sobj) == ~sobj.create /\ sobj.ptr.valid /\ sobj.write = 1
DeferUpdate(sobj) ==
    ~sobj.create /\ sobj.ptr.valid /\ sobj.write # 1 /\ sobj.ptr.val # sobj.raw
InBatch(m, sobj) ==
    /\ meta[m].writable
    /\ ~DeferSkip(sobj)
    /\ DeferUpdate(sobj) \/ sobj.create \/ sobj.delete \/ sobj.clear # NoClear

BatchKeys(g, m) == {k \in DOMAIN SMap(g, m) : InBatch(m, SMap(g, m)[k])}

\* An entry that does not carry the session object's create mark.
EntryAsUpdate(g, m, k, sobj) ==
    [g |-> g, m |-> m, k |-> k, val |-> sobj.ptr.val, create |-> FALSE,
     delete |-> sobj.delete, clear |-> sobj.clear]

\* The entry a batch carries for a session object.
Entry(g, m, k, sobj) ==
    [g |-> g, m |-> m, k |-> k, val |-> sobj.ptr.val, create |-> sobj.create,
     delete |-> sobj.delete, clear |-> sobj.clear]

\* The objects of the batch, by key.
AllKeys == [i \in 1..(MaxKey + 1) |-> i - 1]
InSet(S) == [x \in 0..MaxKey |-> x \in S]
KeySeq(S) == LET in == InSet(S) IN SelectSeq(AllKeys, LAMBDA x : in[x])
BatchOf(g, m) ==
    LET ks == KeySeq(BatchKeys(g, m))
    IN  [i \in 1..Len(ks) |-> Entry(g, m, ks[i], SMap(g, m)[ks[i]])]

\* Updated and created entries overwrite the global entry of their key, if
\* there is one.
DeferSyncKeys(g, m) ==
    {k \in BatchKeys(g, m) :
        /\ DeferUpdate(SMap(g, m)[k]) \/ SMap(g, m)[k].create
        /\ meta[m].cache /\ Has(GMap(m), k)}

\* A Defer that leaves the global tier as it is.
DeferGlobalUntouched(g, m) == gcache

DeferGlobal(g, m) ==
    IF DeferSyncKeys(g, m) = {} THEN gcache
    ELSE [gcache EXCEPT ![m] =
             [k \in DOMAIN @ |-> IF k \in DeferSyncKeys(g, m)
                                 THEN Clone(SMap(g, m)[k].ptr) ELSE @[k]]]

\* globalLock for the model when the batch carries a delete or a clear.
DeferLocks(g, m) ==
    \E k \in BatchKeys(g, m) : SMap(g, m)[k].delete \/ SMap(g, m)[k].clear # NoClear

\* A send that puts the batch in front of the batches already queued.
submitFront(qs, g, batch) == [qs EXCEPT ![QueueOf(g)] = <<batch>> \o @]

\* A submit that does not look at commitCloseSig.
SubmitPcAnyway(g, batch) ==
    IF batch # <<>> THEN [st |-> "submit", batch |-> batch] ELSE IdlePc

\* A queue that always has room.
QueueNeverFull(q) == FALSE

\* commitBatch.submit, the send: the batch goes to the queue of the goroutine.
submit(qs, g, batch) == [qs EXCEPT ![QueueOf(g)] = Append(@, batch)]

\* commitBatch.submit, the entry: nothing is submitted once commitCloseSig is set.
SubmitPc(g, batch) ==
    IF batch # <<>> /\ closeSig = 0 THEN [st |-> "submit", batch |-> batch] ELSE IdlePc

TheModel == CHOOSE m \in Models : TRUE

\* A Defer that leaves the session's listed marks in place.
DeferSessionListKept(g) == slist[g]

\* sessionListMap.Delete(gid).
DeferSessionList(g) == {}

\* ctx.writable: only a writable context compares, locks and submits.
DeferWritable(g) == ctx[g] = "rw"

\* Defer, with the order in which the range over the session map delivered
\* the objects of the batch.
DeferBatch(g, batch) ==
    /\ Free(g)
    /\ ctx[g] # "none"
    /\ ctx' = [ctx EXCEPT ![g] = "none"]
    /\ scache' = [scache EXCEPT ![g] = [m \in Models |-> EmptyMap]]
    /\ slist' = [slist EXCEPT ![g] = DeferSessionList(g)]
    /\ LET m == TheModel
       IN  IF DeferWritable(g)
           THEN /\ gcache' = DeferGlobal(g, m)
                /\ glock' = IF DeferLocks(g, m) THEN glock \cup {m} ELSE glock
                /\ pc' = [pc EXCEPT ![g] = SubmitPc(g, batch)]
           ELSE UNCHANGED <<gcache, glock, pc>>
    /\ last' = [last EXCEPT ![g] = Api("Defer", g, 0, NoCond, ctx[g] = "rw", FALSE, "none", {})]
    /\ UNCHANGED <<closeSig, commitBatchCount, commitCounters, meta, wg, remote, glist,
                   gincre, rd, queues, worker, fsig, fl, fbusy, left, nsess>>

\* Defer with the objects of the batch by ascending key.
Defer(g) == DeferBatch(g, BatchOf(g, TheModel))

\* The orders in which a batch can come out: the keys of a sync.Map are ranged
\* over in no specified order (part_005 274-278).
BatchOrders(g, m) ==
    LET b == BatchOf(g, m)
        n == Len(b)
    IN  {[i \in 1..n |-> b[p[i]]] :
            p \in {f \in [1..n -> 1..n] : \A x, y \in 1..n : f[x] = f[y] => x = y}}

\* Defer with the objects of the batch in any order of the range.
DeferAnyOrder(g) == \E b \in BatchOrders(g, TheModel) : DeferBatch(g, b)

\* submit's select: the send when the queue has room, else the batch is
\* dropped with a critical log.  Defer returns either way.
QueueFull(q) == Len(queues[q]) >= commitBatchCount

SubmitSend(g) ==
    /\ pc[g].st = "submit"
    /\ pc' = [pc EXCEPT ![g] = IdlePc]
    /\ IF QueueFull(QueueOf(g))
       THEN /\ UNCHANGED queues
            /\ last' = [last EXCEPT ![g].src = "dropped"]
       ELSE /\ queues' = submit(queues, g, pc[g].batch)
            /\ last' = [last EXCEPT ![g].src = "queued"]
    /\ UNCHANGED <<closeSig, commitBatchCount, commitCounters, meta, wg, remote, gcache,
                   glist, glock, gincre, ctx, scache, slist, rd, worker, fsig, fl,
                   fbusy, left, nsess>>

\* A handler whose Delete leaves the remote row in place.
HandleRemoteKeepsRow(tbl, e) ==
    IF e.create THEN Put(tbl, e.k, e.val)
    ELSE IF e.delete THEN tbl
    ELSE IF e.clear # NoClear
    THEN [k \in {x \in DOMAIN tbl : ~Matchs(tbl[x], e.clear)} |-> tbl[k]]
    ELSE Put(tbl, e.k, e.val)

\* A push that handles the objects in the order of the batch.
PushAsSubmitted(batch) == batch

\* ----------------------------------------------------------------- commit
\* commitBatch.push: the clear entries first, then the deletes, then the rest.
IsClearEntry(e) == e.clear # NoClear
IsDeleteEntry(e) == e.delete
IsWriteEntry(e) == ~e.delete /\ e.clear = NoClear

PushOrder(batch) ==
    SelectSeq(batch, IsClearEntry) \o SelectSeq(batch, IsDeleteEntry)
        \o SelectSeq(batch, IsWriteEntry)

\* commitBatch.handle on the remote table: Model.Write, Delete or Clear.
HandleRemote(tbl, e) ==
    IF e.create THEN Put(tbl, e.k, e.val)
    ELSE IF e.delete THEN Del(tbl, e.k)
    ELSE IF e.clear # NoClear
    THEN [k \in {x \in DOMAIN tbl : ~Matchs(tbl[x], e.clear)} |-> tbl[k]]
    ELSE Put(tbl, e.k, e.val)

\* The posthandler on the global tier: soft-deleted entries are removed.
PostGlobal(gc, e) ==
    IF (e.delete \/ e.clear # NoClear) /\ meta[e.m].cache /\ Has(gc, e.m)
    THEN IF e.delete
         THEN IF Has(gc[e.m], e.k) /\ ~gc[e.m][e.k].valid
              THEN [gc EXCEPT ![e.m] = Del(@, e.k)] ELSE gc
         ELSE [gc EXCEPT ![e.m] = [k \in {x \in DOMAIN @ : @[x].valid} |-> @[k]]]
    ELSE gc

\* globalUnlock: LoadAndDelete, then Done on the WaitGroup found.
EntryUnlocks(e) == (e.delete \/ e.clear # NoClear) /\ e.m \in glock

globalUnlock(locks, e) == IF EntryUnlocks(e) THEN locks \ {e.m} ELSE locks

\* Done wakes every caller parked on the WaitGroup.
Release(r, e) ==
    [g \in Gids |-> IF EntryUnlocks(e) /\ r[g] # NoRd /\ r[g].m = e.m
                    THEN [r[g] EXCEPT !.rel = TRUE] ELSE r[g]]

\* The worker takes a batch from its queue.
WorkerTake(q) ==
    /\ worker[q].mode = "idle"
    /\ queues[q] # <<>>
    /\ worker' = [worker EXCEPT ![q] = [mode |-> "push", todo |-> PushOrder(Head(queues[q]))]]
    /\ queues' = [queues EXCEPT ![q] = Tail(@)]
    /\ UNCHANGED <<closeSig, commitBatchCount, commitCounters, pc, meta, wg, remote, gcache, glist, glock, gincre, ctx, scache,
                   slist, rd, fsig, fl, fbusy, last, left, nsess>>

\* The worker handles the next entry of the batch it is pushing.
WorkerHandle(q) ==
    /\ worker[q].mode \in {"push", "flush", "drain"}
    /\ worker[q].todo # <<>>
    /\ LET e == Head(worker[q].todo)
           rest == Tail(worker[q].todo)
       IN  /\ remote' = [remote EXCEPT ![e.m] = HandleRemote(@, e)]
           /\ gcache' = PostGlobal(gcache, e)
           /\ glock' = globalUnlock(glock, e)
           /\ rd' = Release(rd, e)
           /\ worker' = [worker EXCEPT ![q] =
                  [@ EXCEPT !.todo = rest,
                            !.mode = IF rest = <<>> /\ @ = "push" THEN "idle" ELSE @]]
           /\ commitCounters' = [commitCounters EXCEPT ![q] = @ + 1]
    /\ UNCHANGED <<closeSig, commitBatchCount, pc, meta, wg, glist, gincre, ctx, scache, slist, queues, fsig, fl,
                   fbusy, last, left, nsess>>

\* The worker takes a flush request: it will drain its queue, then Done.
WorkerFlushTake(q) ==
    /\ worker[q].mode = "idle"
    /\ fsig[q] # <<>>
    /\ worker' = [worker EXCEPT ![q] = [mode |-> "flush", todo |-> <<>>, fwg |-> Head(fsig[q])]]
    /\ fsig' = [fsig EXCEPT ![q] = Tail(@)]
    /\ UNCHANGED <<closeSig, commitBatchCount, commitCounters, pc, meta, wg, remote, gcache, glist, glock, gincre, ctx, scache,
                   slist, rd, queues, fl, fbusy, last, left, nsess>>

WorkerFlushDrain(q) ==
    /\ worker[q].mode = "flush"
    /\ worker[q].todo = <<>>
    /\ queues[q] # <<>>
    /\ worker' = [worker EXCEPT ![q].todo = PushOrder(Head(queues[q]))]
    /\ queues' = [queues EXCEPT ![q] = Tail(@)]
    /\ UNCHANGED <<closeSig, commitBatchCount, commitCounters, pc, meta, wg, remote, gcache, glist, glock, gincre, ctx, scache,
                   slist, rd, fsig, fl, fbusy, last, left, nsess>>

\* A flush that signals Done without looking at the queue.
FlushDrainedAtOnce(q) == TRUE

\* The drain loop ends when len(queue) is 0; then fwg.Done().
FlushDrained(q) == queues[q] = <<>>

WorkerFlushDone(q) ==
    /\ worker[q].mode = "flush"
    /\ worker[q].todo = <<>>
    /\ FlushDrained(q)
    /\ fl' = [fl EXCEPT ![worker[q].fwg].st = "woken"]
    /\ worker' = [worker EXCEPT ![q] = IdleWorker]
    /\ UNCHANGED <<closeSig, commitBatchCount, commitCounters, pc, meta, wg, remote, gcache, glist, glock, gincre, ctx, scache,
                   slist, rd, queues, fsig, fbusy, last, left, nsess>>

\* The worker's select receives from its closed commitSetupSig channel: the
\* loop returns and the deferred function drains what the queue holds.
WorkerQuit(q) ==
    /\ worker[q].mode = "idle"
    /\ closeSig = 1
    /\ worker' = [worker EXCEPT ![q].mode = "drain"]
    /\ UNCHANGED <<closeSig, commitBatchCount, commitCounters, pc, meta, wg, remote, gcache,
                   glist, glock, gincre, ctx, scache, slist, rd, queues, fsig, fl,
                   fbusy, last, left, nsess>>

WorkerQuitDrain(q) ==
    /\ worker[q].mode = "drain"
    /\ worker[q].todo = <<>>
    /\ queues[q] # <<>>
    /\ worker' = [worker EXCEPT ![q].todo = PushOrder(Head(queues[q]))]
    /\ queues' = [queues EXCEPT ![q] = Tail(@)]
    /\ UNCHANGED <<closeSig, commitBatchCount, commitCounters, pc, meta, wg, remote, gcache,
                   glist, glock, gincre, ctx, scache, slist, rd, fsig, fl, fbusy,
                   last, left, nsess>>

\* The queue is empty: commitCloseWait.Done(), the worker is gone.
WorkerQuitDone(q) ==
    /\ worker[q].mode = "drain"
    /\ worker[q].todo = <<>>
    /\ queues[q] = <<>>
    /\ worker' = [worker EXCEPT ![q].mode = "dead"]
    /\ UNCHANGED <<closeSig, commitBatchCount, commitCounters, pc, meta, wg, remote, gcache,
                   glist, glock, gincre, ctx, scache, slist, rd, queues, fsig, fl,
                   fbusy, last, left, nsess>>

\* ------------------------------------------------------------------ Flush
\* commitGauges: the objects submitted to the queue and not handled yet.
RECURSIVE Objects(_)
Objects(bs) == IF bs = <<>> THEN 0 ELSE Len(Head(bs)) + Objects(Tail(bs))

commitGauges(q) == Objects(queues[q]) + Len(worker[q].todo)

\* The objects submitted to each queue since the start.
Submitted == [q \in Queues |-> commitCounters[q] + commitGauges(q)]

AllQueues == [i \in 1..commitQueueCount |-> i - 1]

\* Flush(gid): gid -1 is every queue in turn, under the commitFlushSig flag.
FlushTargets == {-1} \cup Gids

FlushBegin(g, tgt) ==
    /\ Idle(g)
    /\ IF closeSig # 0
       THEN /\ last' = [last EXCEPT ![g] = Api("Flush", g, tgt, NoCond, FALSE, FALSE, "closed", {})]
            /\ UNCHANGED <<fl, fbusy>>
       ELSE IF tgt = -1
       THEN IF fbusy
            THEN /\ last' = [last EXCEPT ![g] = Api("Flush", g, tgt, NoCond, FALSE, FALSE, "none", {})]
                 /\ UNCHANGED <<fl, fbusy>>
            ELSE /\ fbusy' = TRUE
                 /\ fl' = [fl EXCEPT ![g] = [st |-> "send", qs |-> AllQueues, all |-> TRUE,
                                             mark |-> Submitted]]
                 /\ UNCHANGED last
       ELSE /\ fl' = [fl EXCEPT ![g] = [st |-> "send", qs |-> <<QueueOf(tgt)>>, all |-> FALSE,
                                        mark |-> Submitted]]
            /\ UNCHANGED <<last, fbusy>>
    /\ UNCHANGED <<closeSig, commitBatchCount, commitCounters, pc, meta, wg, remote, gcache, glist, glock, gincre, ctx, scache,
                   slist, rd, queues, worker, fsig, left, nsess>>

\* sig <- wg on the flush channel of the queue (capacity one).
FlushSend(g) ==
    /\ fl[g].st = "send"
    /\ fsig[Head(fl[g].qs)] = <<>>
    /\ fsig' = [fsig EXCEPT ![Head(fl[g].qs)] = <<g>>]
    /\ fl' = [fl EXCEPT ![g].st = "wait"]
    /\ UNCHANGED <<closeSig, commitBatchCount, commitCounters, pc, meta, wg, remote, gcache, glist, glock, gincre, ctx, scache,
                   slist, rd, queues, worker, fbusy, last, left, nsess>>

\* wg.Wait returns: the next queue, or the end of the call.
FlushWake(g) ==
    /\ fl[g].st = "woken"
    /\ IF Len(fl[g].qs) > 1
       THEN /\ fl' = [fl EXCEPT ![g] = [@ EXCEPT !.st = "send", !.qs = Tail(@)]]
            /\ UNCHANGED <<fbusy, last>>
       ELSE /\ fl' = [fl EXCEPT ![g] = IdleFl]
            /\ fbusy' = IF fl[g].all THEN FALSE ELSE fbusy
            /\ last' = [last EXCEPT ![g] = Api("Flush", g, IF fl[g].all THEN -1 ELSE Head(fl[g].qs),
                           NoCond, TRUE, FALSE, "none", {})]
    /\ UNCHANGED <<closeSig, commitBatchCount, commitCounters, pc, meta, wg, remote, gcache, glist, glock, gincre, ctx, scache,
                   slist, rd, queues, worker, fsig, left, nsess>>

\* ------------------------------------------------------------------ Close
\* Close: the compare-and-swap on commitCloseSig.  The winner closes every
\* commitSetupSig channel and waits on commitCloseWait; any other call returns
\* at once.
CloseBegin(g) ==
    /\ Idle(g)
    /\ IF closeSig = 0
       THEN /\ closeSig' = 1
            /\ pc' = [pc EXCEPT ![g] = [st |-> "close"]]
            /\ UNCHANGED last
       ELSE /\ last' = [last EXCEPT ![g] = Api("Close", g, 0, NoCond, FALSE, FALSE, "none", {})]
            /\ UNCHANGED <<closeSig, pc>>
    /\ UNCHANGED <<commitBatchCount, commitCounters, meta, wg, remote, gcache, glist,
                   glock, gincre, ctx, scache, slist, rd, queues, worker, fsig, fl,
                   fbusy, left, nsess>>

\* commitCloseWait.Wait() returns once every worker has called Done.
CloseEnd(g) ==
    /\ pc[g].st = "close"
    /\ \A q \in Queues : worker[q].mode = "dead"
    /\ pc' = [pc EXCEPT ![g] = IdlePc]
    /\ last' = [last EXCEPT ![g] = Api("Close", g, 0, NoCond, TRUE, FALSE, "none", {})]
    /\ UNCHANGED <<closeSig, commitBatchCount, commitCounters, meta, wg, remote, gcache,
                   glist, glock, gincre, ctx, scache, slist, rd, queues, worker,
                   fsig, fl, fbusy, left, nsess>>

\* ------------------------------------------------------------------- Dump
\* Done on a WaitGroup of globalLockMap wakes the callers parked on it.
DumpRelease(r) ==
    [h \in Gids |-> IF r[h] # NoRd /\ r[h].m \in glock THEN [r[h] EXCEPT !.rel = TRUE]
                    ELSE r[h]]

\* Dump() with no argument, under cacheDumpMutex and cacheDumpWait: the three
\* global maps are cleared and every WaitGroup of globalLockMap gets a Done.
DumpBegin(g) ==
    /\ Idle(g)
    /\ ~Dumping
    /\ left[g] > 0
    /\ left' = [left EXCEPT ![g] = @ - 1]
    /\ gcache' = EmptyMap
    /\ glist' = {}
    /\ gincre' = EmptyMap
    /\ rd' = DumpRelease(rd)
    /\ pc' = [pc EXCEPT ![g] = [st |-> "dump"]]
    /\ UNCHANGED <<closeSig, commitBatchCount, commitCounters, meta, wg, remote, glock,
                   ctx, scache, slist, queues, worker, fsig, fl, fbusy, last, nsess>>

\* globalLockMap.Clear(), then the deferred Done and Unlock: Dump returns.
DumpEnd(g) ==
    /\ pc[g].st = "dump"
    /\ glock' = {}
    /\ pc' = [pc EXCEPT ![g] = IdlePc]
    /\ last' = [last EXCEPT ![g] = Api("Dump", g, 0, NoCond, TRUE, FALSE, "none", {})]
    /\ UNCHANGED <<closeSig, commitBatchCount, commitCounters, meta, wg, remote, gcache,
                   glist, gincre, ctx, scache, slist, rd, queues, worker, fsig, fl,
                   fbusy, left, nsess>>

\* ------------------------------------------------------------- globalWait
\* A parked Read or List resumes: globalLockMap.Delete, then the remote tier.
Resume(g) ==
    /\ rd[g] # NoRd
    /\ rd[g].rel
    /\ rd' = [rd EXCEPT ![g] = NoRd]
    /\ glock' = glock \ {rd[g].m}
    /\ CASE rd[g].kind = "read" ->
              RemoteExact(g, rd[g].m, rd[g].k) /\ UNCHANGED <<slist, glist>>
         [] rd[g].kind = "fuzzy" ->
              RemoteFuzzy(g, rd[g].m, rd[g].cond, rd[g].w) /\ UNCHANGED <<slist, glist>>
         [] OTHER -> ListRemote(g, rd[g].m, rd[g].cond, rd[g].w)
    /\ UNCHANGED <<closeSig, commitBatchCount, commitCounters, pc, meta, wg, remote, gincre, ctx, queues, worker, fsig, fl, fbusy,
                   left, nsess>>

\* ------------------------------------------------------------------- Next
Bools == BOOLEAN
\* Read and List are called without a writable flag: meta.writable applies.
ReadModes == {TRUE}
AnyCond == Conds \cup {NoCond}

InSession(g) == ctx[g] # "none"

Next ==
    \/ \E g \in Gids, w \in Bools : Watch(g, w)
    \/ \E g \in Gids, m \in Models, k \in Keys, v \in Vals, held \in Bools :
          InSession(g) /\ Write(g, m, k, v, held)
    \/ \E g \in Gids, m \in Models, k \in Keys, held \in Bools :
          InSession(g) /\ Delete(g, m, k, held)
    \/ \E g \in Gids, m \in Models, k \in Keys, v \in Vals : Mutate(g, m, k, v)
    \/ \E g \in Gids, m \in Models, k \in Keys, w \in ReadModes :
          InSession(g) /\ ReadExact(g, m, k, w)
    \/ \E g \in Gids, m \in Models, c \in Conds, w \in ReadModes :
          InSession(g) /\ ReadFuzzy(g, m, c, w)
    \/ \E g \in Gids, m \in Models, c \in AnyCond, w \in ReadModes :
          InSession(g) /\ List(g, m, c, w)
    \/ \E g \in Gids, m \in Models, c \in AnyCond : InSession(g) /\ Clear(g, m, c)
    \/ \E g \in Gids : Defer(g)
    \/ \E g \in Gids : SubmitSend(g)
    \/ \E g \in Gids : Resume(g)
    \/ \E q \in Queues : WorkerTake(q)
    \/ \E q \in Queues : WorkerHandle(q)

Spec == Init /\ [][Next]_vars

\* The same sessions without Write: entries enter a session by Read and List
\* only, and change by the caller's mutation of what it was handed.
ReadOps == 3

InitRead ==
    InitWith(WritableMetas, RemoteChoices, [g \in Gids |-> IF g = 1 THEN ReadOps ELSE EnvOps])

NextRead ==
    \/ \E g \in Gids, w \in Bools : Watch(g, w)
    \/ \E g \in Gids, m \in Models, k \in Keys, held \in Bools :
          InSession(g) /\ Delete(g, m, k, held)
    \/ \E g \in Gids, m \in Models, k \in Keys, v \in Vals : Mutate(g, m, k, v)
    \/ \E g \in Gids, m \in Models, k \in Keys, w \in ReadModes :
          InSession(g) /\ ReadExact(g, m, k, w)
    \/ \E g \in Gids, m \in Models, c \in AnyCond, w \in ReadModes :
          InSession(g) /\ List(g, m, c, w)
    \/ \E g \in Gids : Defer(g)
    \/ \E g \in Gids : SubmitSend(g)
    \/ \E g \in Gids : Resume(g)
    \/ \E q \in Queues : WorkerTake(q)
    \/ \E q \in Queues : WorkerHandle(q)

SpecRead == InitRead /\ [][NextRead]_vars

\* Sessions whose every Read and List passes writable = false: what a session
\* holds was handed to it read-only, and the caller mutates it all the same.
\* Deletes make the reads wait for the lock of a model.
ReadOnlyModes == {FALSE}

NextReadOnly ==
    \/ \E g \in Gids : Watch(g, TRUE)
    \/ \E g \in Gids, m \in Models, k \in Keys, held \in Bools :
          InSession(g) /\ Delete(g, m, k, held)
    \/ \E g \in Gids, m \in Models, k \in Keys, v \in Vals : Mutate(g, m, k, v)
    \/ \E g \in Gids, m \in Models, k \in Keys, w \in ReadOnlyModes :
          InSession(g) /\ ReadExact(g, m, k, w)
    \/ \E g \in Gids, m \in Models, c \in Conds, w \in ReadOnlyModes :
          InSession(g) /\ ReadFuzzy(g, m, c, w)
    \/ \E g \in Gids, m \in Models, c \in AnyCond, w \in ReadOnlyModes :
          InSession(g) /\ List(g, m, c, w)
    \/ \E g \in Gids : Defer(g)
    \/ \E g \in Gids : SubmitSend(g)
    \/ \E g \in Gids : Resume(g)
    \/ \E q \in Queues : WorkerTake(q)
    \/ \E q \in Queues : WorkerHandle(q)

SpecReadOnly == InitRead /\ [][NextReadOnly]_vars

\* Sessions that write, defer and flush.  Each goroutine writes the row of its
\* own key and reads any row.
ChainOps == 3

OwnKey(g) == g

\* The remote holds no row, or a row for every key.
ChainRemotes == {EmptyMap, [k \in Keys |-> IF k = 1 THEN 1 ELSE MaxVal]}

InitChain ==
    InitWith(WritableMetas, ChainRemotes, [g \in Gids |-> IF g = 1 THEN ChainOps ELSE EnvOps])

\* Flush() of the goroutine's own queue, or Flush(-1), called after a Defer.
OwnFlush(g) == {-1, g}

NextChain ==
    \/ \E g \in Gids : Watch(g, TRUE)
    \/ \E g \in Gids, m \in Models, v \in Vals, held \in Bools :
          InSession(g) /\ Write(g, m, OwnKey(g), v, held)
    \/ \E g \in Gids, m \in Models, held \in Bools :
          InSession(g) /\ Delete(g, m, OwnKey(g), held)
    \/ \E g \in Gids, m \in Models, k \in Keys, w \in ReadModes :
          InSession(g) /\ ReadExact(g, m, k, w)
    \/ \E g \in Gids : Defer(g)
    \/ \E g \in Gids : SubmitSend(g)
    \/ \E g \in Gids : Resume(g)
    \/ \E q \in Queues : WorkerTake(q)
    \/ \E q \in Queues : WorkerHandle(q)
    \/ \E q \in Queues : WorkerFlushTake(q)
    \/ \E q \in Queues : WorkerFlushDrain(q)
    \/ \E q \in Queues : WorkerFlushDone(q)
    \/ \E g \in {1} : \E t \in OwnFlush(g) : last[g].op = "Defer" /\ FlushBegin(g, t)
    \/ \E g \in Gids : FlushSend(g)
    \/ \E g \in Gids : FlushWake(g)

SpecChain == InitChain /\ [][NextChain]_vars

\* ------------------------------------------------- sessionObjectPool
\* Session objects with their identity: the same sessionObject can sit in a
\* batch under replay and, after posthandler's reset and Put, in the session
\* map of the goroutine whose setSessionCache got it from the pool.
MaxObj == 2
PoolOps == 2

ObjIds == 1..MaxObj

\* sessionObject.reset(): every field nil or zero.
ResetSobj(id) == NewSobj(Probe) @@ [id |-> id, nil |-> TRUE]

IsReset(sobj) == "nil" \in DOMAIN sobj

\* The session entries that are the object id.
PoolHolders(id) ==
    {h \in Gids \X (0..MaxKey) :
        Has(SMap(h[1], TheModel), h[2]) /\ SMap(h[1], TheModel)[h[2]].id = id}

SeqIds(b) == {b[i].id : i \in 1..Len(b)}

\* The worker of q is inside push, between its three loops over cb.objects.
InPush(q) == worker[q].mode = "push" /\ "done" \in DOMAIN worker[q]

\* Objects of batches that wait for their replay, or that push has not handled.
PoolPending ==
    UNION {SeqIds(b) : b \in UNION {{queues[q][i] : i \in 1..Len(queues[q])} : q \in Queues}}
    \cup UNION {SeqIds(pc[g].batch) : g \in {h \in Gids : pc[h].st = "submit"}}
    \cup UNION {SeqIds(worker[q].todo) \ worker[q].done : q \in {x \in Queues : InPush(x)}}

\* sessionObjectPool.Get(): an object that was Put, or a new one.
PoolGet == {id \in ObjIds : PoolHolders(id) = {} /\ id \notin PoolPending}

\* The object that setSessionCache stored for a key the session did not hold.
PoolTag(smap, k, id) ==
    IF "id" \in DOMAIN smap[k] THEN smap ELSE Put(smap, k, smap[k] @@ [id |-> id])

PoolUsable(g, m, k) == Has(SMap(g, m), k) => ~IsReset(SMap(g, m)[k])

PoolWrite(g, m, k, v, id) ==
    /\ CanCall(g) /\ PreambleOK(g, m)
    /\ PoolUsable(g, m, k)
    /\ id \in PoolGet
    /\ left' = [left EXCEPT ![g] = @ - 1]
    /\ gcache' = WriteGlobal(m, k, Inst(v, TRUE))
    /\ scache' = [scache EXCEPT ![g][m] = PoolTag(WriteSession(@, k, Inst(v, TRUE), FALSE), k, id)]
    /\ last' = [last EXCEPT ![g] = Api("Write", g, k, NoCond, TRUE, FALSE, "none", {Ret(k, Inst(v, TRUE))})]
    /\ UNCHANGED <<closeSig, commitBatchCount, commitCounters, pc, meta, wg, remote, glist, glock, gincre, ctx, slist, rd, queues,
                   worker, fsig, fl, fbusy, nsess>>

PoolDelete(g, m, k, id) ==
    /\ CanCall(g) /\ PreambleOK(g, m)
    /\ PoolUsable(g, m, k)
    /\ id \in PoolGet
    /\ left' = [left EXCEPT ![g] = @ - 1]
    /\ gcache' = DeleteGlobal(m, k)
    /\ scache' = [scache EXCEPT ![g][m] = PoolTag(DeleteSession(@, k, Inst(0, FALSE), FALSE), k, id)]
    /\ last' = [last EXCEPT ![g] = Api("Delete", g, k, NoCond, TRUE, FALSE, "none", {Ret(k, Inst(0, FALSE))})]
    /\ UNCHANGED <<closeSig, commitBatchCount, commitCounters, pc, meta, wg, remote, glist, glock, gincre, ctx, slist, rd, queues,
                   worker, fsig, fl, fbusy, nsess>>

\* cb.objects: the session objects themselves.
PoolBatch(g, m) ==
    [i \in 1..Len(BatchOf(g, m)) |->
        BatchOf(g, m)[i] @@ [id |-> SMap(g, m)[BatchOf(g, m)[i].k].id, nil |-> FALSE]]

\* Defer; getModelMeta(sobj.ptr) on a reset object is a nil dereference.
PoolDefer(g) ==
    /\ \A k \in DOMAIN SMap(g, TheModel) : ~IsReset(SMap(g, TheModel)[k])
    /\ DeferBatch(g, PoolBatch(g, TheModel))

PoolTake(q) ==
    /\ worker[q].mode = "idle"
    /\ queues[q] # <<>>
    /\ worker' = [worker EXCEPT ![q] =
           [mode |-> "push", todo |-> Head(queues[q]), loop |-> 1, idx |-> 1, done |-> {}]]
    /\ queues' = [queues EXCEPT ![q] = Tail(@)]
    /\ UNCHANGED <<closeSig, commitBatchCount, commitCounters, pc, meta, wg, remote, gcache, glist, glock, gincre, ctx, scache,
                   slist, rd, fsig, fl, fbusy, last, left, nsess>>

\* What push reads through cb.objects[i]: the object as Defer left it, the
\* reset object after posthandler, or what the session that got it from the
\* pool has put into it since.
PoolObject(q, i) ==
    LET e == worker[q].todo[i]
    IN  IF e.id \notin worker[q].done THEN e
        ELSE IF PoolHolders(e.id) = {}
        THEN [e EXCEPT !.create = FALSE, !.delete = FALSE, !.clear = NoClear, !.nil = TRUE]
        ELSE LET h == CHOOSE x \in PoolHolders(e.id) : TRUE
                 sobj == SMap(h[1], TheModel)[h[2]]
             IN  [g |-> h[1], m |-> TheModel, k |-> h[2], val |-> sobj.ptr.val,
                  create |-> sobj.create, delete |-> sobj.delete, clear |-> sobj.clear,
                  id |-> e.id, nil |-> IsReset(sobj)]

\* The tests of the three loops of push.
PoolLoopTakes(loop, o) ==
    CASE loop = 1 -> o.clear # NoClear
      [] loop = 2 -> o.delete
      [] OTHER -> ~o.nil /\ ~o.delete /\ o.clear = NoClear

PoolAdvance(w, done) ==
    IF w.idx < Len(w.todo) THEN [w EXCEPT !.idx = @ + 1, !.done = done]
    ELSE IF w.loop < 3 THEN [w EXCEPT !.loop = @ + 1, !.idx = 1, !.done = done]
    ELSE IdleWorker

\* One iteration of a loop of push: the test and, when it holds, handle with
\* its posthandler, which resets the object and puts it into the pool.
PoolStep(q) ==
    /\ InPush(q)
    /\ LET o == PoolObject(q, worker[q].idx)
       IN  IF PoolLoopTakes(worker[q].loop, o)
           THEN /\ remote' = [remote EXCEPT ![o.m] = HandleRemote(@, o)]
                /\ gcache' = PostGlobal(gcache, o)
                /\ glock' = globalUnlock(glock, o)
                /\ rd' = Release(rd, o)
                /\ scache' = [g \in Gids |-> [m \in Models |->
                       [k \in DOMAIN scache[g][m] |->
                           IF scache[g][m][k].id = o.id THEN ResetSobj(o.id)
                           ELSE scache[g][m][k]]]]
                /\ worker' = [worker EXCEPT ![q] = PoolAdvance(@, @.done \cup {o.id})]
                /\ commitCounters' = [commitCounters EXCEPT ![q] = @ + 1]
           ELSE /\ worker' = [worker EXCEPT ![q] = PoolAdvance(@, @.done)]
                /\ UNCHANGED <<remote, gcache, glock, rd, scache, commitCounters>>
    /\ UNCHANGED <<closeSig, commitBatchCount, pc, meta, wg, glist, gincre, ctx, slist, queues, fsig, fl,
                   fbusy, last, left, nsess>>

InitPool ==
    InitWith(WritableMetas, ChainRemotes, [g \in Gids |-> IF g = 1 THEN PoolOps ELSE EnvOps])

NextPool ==
    \/ \E g \in Gids : Watch(g, TRUE)
    \/ \E g \in Gids, m \in Models, k \in Keys, v \in Vals, id \in ObjIds : PoolWrite(g, m, k, v, id)
    \/ \E g \in Gids, m \in Models, k \in Keys, id \in ObjIds : PoolDelete(g, m, k, id)
    \/ \E g \in Gids : PoolDefer(g)
    \/ \E g \in Gids : SubmitSend(g)
    \/ \E q \in Queues : PoolTake(q)
    \/ \E q \in Queues : PoolStep(q)

SpecPool == InitPool /\ [][NextPool]_vars

\* Two sessions that write any row, defer, and a Flush(-1) after the Defer:
\* the batches of the two goroutines go to different queues.
InitQuiesce == InitWith(WritableMetas, ChainRemotes, [g \in Gids |-> EnvOps])

NextQuiesce ==
    \/ \E g \in Gids : Watch(g, TRUE)
    \/ \E g \in Gids, m \in Models, k \in Keys, v \in Vals, held \in Bools :
          InSession(g) /\ Write(g, m, k, v, held)
    \/ \E g \in Gids : Defer(g)
    \/ \E g \in Gids : SubmitSend(g)
    \/ \E q \in Queues : WorkerTake(q)
    \/ \E q \in Queues : WorkerHandle(q)
    \/ \E q \in Queues : WorkerFlushTake(q)
    \/ \E q \in Queues : WorkerFlushDrain(q)
    \/ \E q \in Queues : WorkerFlushDone(q)
    \/ \E g \in Gids : last[g].op = "Defer" /\ FlushBegin(g, -1)
    \/ \E g \in Gids : FlushSend(g)
    \/ \E g \in Gids : FlushWake(g)

SpecQuiesce == InitQuiesce /\ [][NextQuiesce]_vars

\* ------------------------------------------------------- globalLockMap
\* The lock of a model at the grain of its sync.Map and WaitGroup calls.
\* Defer calls globalLock once for each delete or clear entry before it submits
\* the batch, and the worker calls globalUnlock once for each such entry it has
\* handled: `owed` counts the calls of globalLock still to be answered.
MaxOwed == 2

\* glock, the models with a record, follows the map.
WgSync == glock' = {m \in Models : wg'.map[m] # 0}

WgFrame ==
    UNCHANGED <<closeSig, commitBatchCount, commitCounters, meta, remote, gcache, glist,
                gincre, ctx, scache, slist, rd, queues, worker, fsig, fl, fbusy, last,
                left, nsess>>

\* globalLock, LoadOrStore: a record found is left as it is, a new WaitGroup
\* is stored with its counter at zero.
WgLockStore(g, m) ==
    /\ Idle(g)
    /\ wg.owed[m] < MaxOwed
    /\ IF wg.map[m] # 0
       THEN /\ wg' = [wg EXCEPT !.owed[m] = @ + 1]
            /\ UNCHANGED pc
       ELSE /\ wg.used < MaxWg
            /\ wg' = [wg EXCEPT !.map[m] = wg.used + 1, !.used = @ + 1]
            /\ pc' = [pc EXCEPT ![g] = [st |-> "lockadd", m |-> m, id |-> wg.used + 1]]
    /\ WgSync
    /\ WgFrame

\* globalLock, Add(1) on the WaitGroup it stored.
WgLockAdd(g) ==
    /\ pc[g].st = "lockadd"
    /\ wg' = [wg EXCEPT !.cnt[pc[g].id] = @ + 1, !.owed[pc[g].m] = @ + 1]
    /\ pc' = [pc EXCEPT ![g] = IdlePc]
    /\ WgSync
    /\ WgFrame

\* LoadAndDelete, then Done on the WaitGroup found.
WgRelease(w, m) ==
    IF w.map[m] # 0 THEN [w EXCEPT !.cnt[w.map[m]] = @ - 1, !.map[m] = 0] ELSE w

\* globalUnlock by a worker that has handled a delete or clear entry.
WgUnlock(m) ==
    /\ wg.owed[m] > 0
    /\ wg' = WgRelease([wg EXCEPT !.owed[m] = @ - 1], m)
    /\ WgSync
    /\ UNCHANGED pc
    /\ WgFrame

\* globalWait, Load: the caller will wait on the WaitGroup it found.
WgWaitLoad(g, m) ==
    /\ Idle(g)
    /\ wg.map[m] # 0
    /\ pc' = [pc EXCEPT ![g] = [st |-> "lockwait", m |-> m, id |-> wg.map[m]]]
    /\ UNCHANGED <<wg, glock>>
    /\ WgFrame

\* globalWait, Wait returns at counter zero, then Delete of the model's record.
WgWaitDone(g) ==
    /\ pc[g].st = "lockwait"
    /\ wg.cnt[pc[g].id] = 0
    /\ wg' = [wg EXCEPT !.map[pc[g].m] = 0]
    /\ pc' = [pc EXCEPT ![g] = IdlePc]
    /\ WgSync
    /\ WgFrame

\* Dump(): Done on every WaitGroup of the map.
WgDumpRange(g) ==
    /\ Idle(g)
    /\ ~Dumping
    /\ wg' = [wg EXCEPT !.cnt = [i \in WgIds |->
                  IF \E m \in Models : wg.map[m] = i THEN @[i] - 1 ELSE @[i]]]
    /\ pc' = [pc EXCEPT ![g] = [st |-> "dump"]]
    /\ WgSync
    /\ WgFrame

\* Dump(): globalLockMap.Clear().
WgDumpClear(g) ==
    /\ pc[g].st = "dump"
    /\ wg' = [wg EXCEPT !.map = [m \in Models |-> 0]]
    /\ pc' = [pc EXCEPT ![g] = IdlePc]
    /\ WgSync
    /\ WgFrame

\* Dump(model): LoadAndDelete and Done for the one model.
WgDumpModel(g, m) ==
    /\ Idle(g)
    /\ ~Dumping
    /\ wg.map[m] # 0
    /\ wg' = WgRelease(wg, m)
    /\ WgSync
    /\ UNCHANGED pc
    /\ WgFrame

InitWg == InitWith(WritableMetas, {EmptyMap}, [g \in Gids |-> 0])

NextWg ==
    \/ \E g \in Gids, m \in Models : WgLockStore(g, m)
    \/ \E g \in Gids : WgLockAdd(g)
    \/ \E m \in Models : WgUnlock(m)
    \/ \E g \in Gids, m \in Models : WgWaitLoad(g, m)
    \/ \E g \in Gids : WgWaitDone(g)
    \/ \E g \in Gids : WgDumpRange(g)
    \/ \E g \in Gids : WgDumpClear(g)
    \/ \E g \in Gids, m \in Models : WgDumpModel(g, m)

SpecWg == InitWg /\ [][NextWg]_vars

\* Sessions that write rows and defer, the batch in any order the range over
\* the session map can deliver.
OrderOps == 3

InitOrder == InitWith(WritableMetas, ChainRemotes, [g \in Gids |-> IF g = 1 THEN OrderOps ELSE EnvOps])

NextOrder ==
    \/ \E g \in Gids : Watch(g, TRUE)
    \/ \E g \in Gids, m \in Models, k \in Keys, v \in Vals, held \in Bools :
          InSession(g) /\ Write(g, m, k, v, held)
    \/ \E g \in Gids : DeferAnyOrder(g)
    \/ \E g \in Gids : SubmitSend(g)
    \/ \E q \in Queues : WorkerTake(q)
    \/ \E q \in Queues : WorkerHandle(q)

SpecOrder == InitOrder /\ [][NextOrder]_vars

\* Sessions that write, read, mutate and clear, the model argument of Clear
\* being a fresh probe, a fresh instance of a row's key, or an instance the
\* session holds.  Each goroutine writes the row of its own key.
ClearOps == 3

\* The model argument of Clear: the probe, or an instance of the first row.
ClearKeys == {ClearKey, 1}

InitClear ==
    InitWith(WritableMetas, ChainRemotes, [g \in Gids |-> IF g = 1 THEN ClearOps ELSE EnvOps])

NextClear ==
    \/ \E g \in Gids : Watch(g, TRUE)
    \/ \E g \in Gids, m \in Models, v \in Vals, held \in Bools :
          InSession(g) /\ Write(g, m, OwnKey(g), v, held)
    \/ \E g \in Gids, m \in Models, k \in Keys, v \in Vals : Mutate(g, m, k, v)
    \/ \E g \in Gids, m \in Models, k \in Keys, w \in ReadModes :
          InSession(g) /\ ReadExact(g, m, k, w)
    \/ \E g \in Gids, m \in Models, c \in AnyCond, ck \in ClearKeys, held \in Bools :
          InSession(g) /\ ClearOf(g, m, c, ck, held)
    \/ \E g \in Gids : Defer(g)
    \/ \E g \in Gids : SubmitSend(g)
    \/ \E g \in Gids : Resume(g)
    \/ \E q \in Queues : WorkerTake(q)
    \/ \E q \in Queues : WorkerHandle(q)

SpecClear == InitClear /\ [][NextClear]_vars

\* Calls made in any state of the preamble: with or without a context, on a
\* model that is registered or not, writable or not.
InitPre ==
    InitWith(MetaChoices, ChainRemotes, [g \in Gids |-> IF g = 1 THEN MaxOps ELSE 0])

NextPre ==
    \/ \E g \in Gids, w \in Bools : Watch(g, w)
    \/ \E g \in Gids, m \in Models, k \in Keys, v \in Vals, held \in Bools :
          Write(g, m, k, v, held)
    \/ \E g \in Gids, m \in Models, k \in Keys, held \in Bools : Delete(g, m, k, held)
    \/ \E g \in Gids, m \in Models, c \in AnyCond : Clear(g, m, c)
    \/ \E g \in Gids, m \in Models : Incre(g, m)
    \/ \E g \in Gids : IncreLocked(g)
    \/ \E g \in Gids, m \in Models, k \in Keys, w \in ReadModes : ReadExact(g, m, k, w)
    \/ \E g \in Gids : Defer(g)
    \/ \E g \in Gids : SubmitSend(g)
    \/ \E q \in Queues : WorkerTake(q)
    \/ \E q \in Queues : WorkerHandle(q)

SpecPre == InitPre /\ [][NextPre]_vars

\* The commit pipeline with queues of capacity one: sessions that write and
\* defer, Flush from every goroutine, Close at any moment.
SmallQueue == 1

InitCommit ==
    InitCap(WritableMetas, {EmptyMap},
            [g \in Gids |-> IF g = 1 THEN MaxOps ELSE EnvOps], SmallQueue)

NextCommit ==
    \/ \E g \in Gids : Watch(g, TRUE)
    \/ \E g \in Gids, m \in Models, v \in Vals, held \in Bools :
          InSession(g) /\ Write(g, m, OwnKey(g), v, held)
    \/ \E g \in Gids : Defer(g)
    \/ \E g \in Gids : SubmitSend(g)
    \/ \E q \in Queues : WorkerTake(q)
    \/ \E q \in Queues : WorkerHandle(q)
    \/ \E q \in Queues : WorkerFlushTake(q)
    \/ \E q \in Queues : WorkerFlushDrain(q)
    \/ \E q \in Queues : WorkerFlushDone(q)
    \/ \E q \in Queues : WorkerQuit(q)
    \/ \E q \in Queues : WorkerQuitDrain(q)
    \/ \E q \in Queues : WorkerQuitDone(q)
    \/ \E g \in Gids, t \in FlushTargets : last[g].op = "Defer" /\ FlushBegin(g, t)
    \/ \E g \in Gids : FlushSend(g)
    \/ \E g \in Gids : FlushWake(g)
    \/ \E g \in Gids : CloseBegin(g)
    \/ \E g \in Gids : CloseEnd(g)

SpecCommit == InitCommit /\ [][NextCommit]_vars

\* Writable sessions on every goroutine, each calling Incre IncreOps times.
IncreOps == 2

InitIncre == InitWith(WritableMetas, RemoteChoices, [g \in Gids |-> IncreOps])

NextIncre ==
    \/ \E g \in Gids : Watch(g, TRUE)
    \/ \E g \in Gids, m \in Models : InSession(g) /\ Incre(g, m)
    \/ \E g \in Gids : IncreLocked(g)
    \/ \E g \in Gids : Defer(g)

SpecIncre == InitIncre /\ [][NextIncre]_vars

\* Sessions that delete and read while the caches are dumped.
InitDump ==
    InitWith(WritableMetas, ChainRemotes, [g \in Gids |-> IF g = 1 THEN MaxOps ELSE EnvOps])

NextDump ==
    \/ \E g \in Gids : Watch(g, TRUE)
    \/ \E g \in Gids, m \in Models, k \in Keys, held \in Bools :
          InSession(g) /\ Delete(g, m, k, held)
    \/ \E g \in Gids, m \in Models, k \in Keys, w \in ReadModes :
          InSession(g) /\ ReadExact(g, m, k, w)
    \/ \E g \in Gids : Defer(g)
    \/ \E g \in Gids : SubmitSend(g)
    \/ \E g \in Gids : Resume(g)
    \/ \E q \in Queues : WorkerTake(q)
    \/ \E q \in Queues : WorkerHandle(q)
    \/ \E g \in Gids : DumpBegin(g)
    \/ \E g \in Gids : DumpEnd(g)

SpecDump == InitDump /\ [][NextDump]_vars

\* Sessions that list, delete and count.
InitCount ==
    InitWith(WritableMetas, ChainRemotes, [g \in Gids |-> IF g = 1 THEN ReadOps ELSE EnvOps])

NextCount ==
    \/ \E g \in Gids : Watch(g, TRUE)
    \/ \E g \in Gids, m \in Models, k \in Keys, held \in Bools :
          InSession(g) /\ Delete(g, m, k, held)
    \/ \E g \in Gids, m \in Models, c \in AnyCond, w \in ReadModes :
          InSession(g) /\ List(g, m, c, w)
    \/ \E g \in Gids, m \in Models, c \in AnyCond : InSession(g) /\ Count(g, m, c)
    \/ \E g \in Gids : Defer(g)
    \/ \E g \in Gids : SubmitSend(g)
    \/ \E g \in Gids : Resume(g)
    \/ \E q \in Queues : WorkerTake(q)
    \/ \E q \in Queues : WorkerHandle(q)

SpecCount == InitCount /\ [][NextCount]_vars

\* One batch in the queue of goroutine 1, its objects in any order: Defer
\* collects them by a concurrent range over the session maps.
MaxBatch == 3

PushEntries ==
    {[g |-> 1, m |-> TheModel, k |-> ClearKey, val |-> 0, create |-> FALSE,
      delete |-> FALSE, clear |-> c] : c \in {NoCond, [kind |-> "eq", val |-> 1]}}
    \cup {[g |-> 1, m |-> TheModel, k |-> k, val |-> 0, create |-> FALSE,
           delete |-> TRUE, clear |-> NoClear] : k \in Keys}
    \cup {[g |-> 1, m |-> TheModel, k |-> k, val |-> v, create |-> c,
           delete |-> FALSE, clear |-> NoClear] : k \in Keys, v \in Vals, c \in BOOLEAN}

\* The session maps hold one object for a key.
PushBatches ==
    {b \in UNION {[1..n -> PushEntries] : n \in 1..MaxBatch} :
        \A i, j \in 1..Len(b) : i # j => b[i].k # b[j].k}

InitPush ==
    \E b \in PushBatches :
        /\ meta \in [Models -> WritableMetas]
        /\ remote \in [Models -> ChainRemotes]
        /\ gcache = EmptyMap
        /\ glist = {}
        /\ glock = {e.m : e \in {b[i] : i \in {j \in 1..Len(b) : b[j].delete \/ b[j].clear # NoClear}}}
        /\ gincre = EmptyMap
        /\ ctx = [g \in Gids |-> "none"]
        /\ scache = [g \in Gids |-> [m \in Models |-> EmptyMap]]
        /\ slist = [g \in Gids |-> {}]
        /\ rd = [g \in Gids |-> NoRd]
        /\ queues = [q \in Queues |-> IF q = QueueOf(1) THEN <<b>> ELSE <<>>]
        /\ worker = [q \in Queues |-> IdleWorker]
        /\ fsig = [q \in Queues |-> <<>>]
        /\ fl = [g \in Gids |-> IdleFl]
        /\ fbusy = FALSE
        /\ last = [g \in Gids |-> NoApi]
        /\ left = [g \in Gids |-> 0]
        /\ nsess = 1
        /\ closeSig = 0
        /\ commitBatchCount = RoomyQueue
        /\ commitCounters = [q \in Queues |-> 0]
        /\ pc = [g \in Gids |-> IdlePc]
        /\ wg = NoWg

NextPush ==
    \/ \E q \in Queues : WorkerTake(q)
    \/ \E q \in Queues : WorkerHandle(q)

SpecPush == InitPush /\ [][NextPush]_vars

\* Sessions that delete and read while the pipeline is closed at any moment,
\* with queues of capacity one.
InitLock ==
    InitCap(WritableMetas, ChainRemotes,
            [g \in Gids |-> IF g = 1 THEN MaxOps ELSE EnvOps], SmallQueue)

NextLock ==
    \/ \E g \in Gids : Watch(g, TRUE)
    \/ \E g \in Gids, m \in Models, k \in Keys, held \in Bools :
          InSession(g) /\ Delete(g, m, k, held)
    \/ \E g \in Gids, m \in Models, k \in Keys, w \in ReadModes :
          InSession(g) /\ ReadExact(g, m, k, w)
    \/ \E g \in Gids : Defer(g)
    \/ \E g \in Gids : SubmitSend(g)
    \/ \E g \in Gids : Resume(g)
    \/ \E q \in Queues : WorkerTake(q)
    \/ \E q \in Queues : WorkerHandle(q)
    \/ \E q \in Queues : WorkerQuit(q)
    \/ \E q \in Queues : WorkerQuitDrain(q)
    \/ \E q \in Queues : WorkerQuitDone(q)
    \/ \E g \in Gids : CloseBegin(g)
    \/ \E g \in Gids : CloseEnd(g)

SpecLock == InitLock /\ [][NextLock]_vars

\* A reader and a deleting session while the queue of goroutine 1, of capacity
\* one, still holds the batch of an earlier session that wrote one new row.
\* The workers never stop: each step of a worker that stays possible is
\* taken, and so is the send of a submit and the return of a released reader.
QueuedWrite ==
    <<[g |-> 1, m |-> TheModel, k |-> 1, val |-> 1, create |-> TRUE, delete |-> FALSE,
       clear |-> NoClear]>>

InitWait ==
    InitQueued(WritableMetas, ChainRemotes, [g \in Gids |-> EnvOps], SmallQueue,
               [q \in Queues |-> IF q = QueueOf(1) THEN <<QueuedWrite>> ELSE <<>>])

NextWait ==
    \/ \E g \in Gids : Watch(g, TRUE)
    \/ \E g \in Gids, m \in Models, k \in Keys, held \in Bools :
          InSession(g) /\ Delete(g, m, k, held)
    \/ \E g \in Gids, m \in Models, k \in Keys, w \in ReadModes :
          InSession(g) /\ ReadExact(g, m, k, w)
    \/ \E g \in Gids : Defer(g)
    \/ \E g \in Gids : SubmitSend(g)
    \/ \E g \in Gids : Resume(g)
    \/ \E q \in Queues : WorkerTake(q)
    \/ \E q \in Queues : WorkerHandle(q)

WorkersRun ==
    /\ \A q \in Queues : WF_vars(WorkerTake(q)) /\ WF_vars(WorkerHandle(q))
    /\ \A g \in Gids : WF_vars(SubmitSend(g)) /\ WF_vars(Resume(g))

SpecWait == InitWait /\ [][NextWait]_vars /\ WorkersRun

\* The commit pipeline of SpecCommit with one call for each goroutine, every
\* goroutine that can take a step of a worker, of Flush, of Close or of submit
\* taking it in the end.
InitFlush == InitCap(WritableMetas, {EmptyMap}, [g \in Gids |-> EnvOps], SmallQueue)

PipelineRuns ==
    /\ \A q \in Queues :
          /\ WF_vars(WorkerTake(q)) /\ WF_vars(WorkerHandle(q))
          /\ WF_vars(WorkerFlushTake(q)) /\ WF_vars(WorkerFlushDrain(q))
          /\ WF_vars(WorkerFlushDone(q))
          /\ WF_vars(WorkerQuitDrain(q)) /\ WF_vars(WorkerQuitDone(q))
    /\ \A g \in Gids :
          /\ WF_vars(SubmitSend(g)) /\ WF_vars(FlushSend(g))
          /\ WF_vars(FlushWake(g)) /\ WF_vars(CloseEnd(g))

SpecFlush == InitFlush /\ [][NextCommit]_vars /\ PipelineRuns

\* A session of goroutine 1 that writes a row of its own and clears, beside an
\* empty session of the other goroutine; both defer, then Flush(-1).
InitCleared ==
    InitWith(WritableMetas, ChainRemotes, [g \in Gids |-> IF g = 1 THEN MaxOps ELSE 0])

NextCleared ==
    \/ \E g \in Gids : Watch(g, TRUE)
    \/ \E g \in Gids, m \in Models, v \in Vals, held \in Bools :
          InSession(g) /\ Write(g, m, OwnKey(g), v, held)
    \/ \E g \in Gids, m \in Models, c \in AnyCond, ck \in ClearKeys, held \in Bools :
          InSession(g) /\ ClearOf(g, m, c, ck, held)
    \/ \E g \in Gids : Defer(g)
    \/ \E g \in Gids : SubmitSend(g)
    \/ \E q \in Queues : WorkerTake(q)
    \/ \E q \in Queues : WorkerHandle(q)
    \/ \E q \in Queues : WorkerFlushTake(q)
    \/ \E q \in Queues : WorkerFlushDrain(q)
    \/ \E q \in Queues : WorkerFlushDone(q)
    \/ \E g \in Gids : last[g].op = "Defer" /\ FlushBegin(g, -1)
    \/ \E g \in Gids : FlushSend(g)
    \/ \E g \in Gids : FlushWake(g)

SpecCleared == InitCleared /\ [][NextCleared]_vars

\* ------------------------------------------------------------ Dump(model)
\* The global maps under the string keys they have, a string being the
\* sequence of its characters.  ModelUnique is alias_table; the key of an
\* increment counter is ModelUnique_column.
Sep == <<"_">>
Alias == <<"a">>
Tables == {<<"u">>, <<"u", "l">>, <<"v">>}
Columns == {<<"i">>}
IncreCap == 2

ModelUnique(table) == Alias \o Sep \o table
Names == {ModelUnique(t) : t \in Tables}
IncreKey(n, c) == n \o Sep \o c

\* XString.StartsWith(s, p): p is a prefix of s.
StartsWith(s, p) == Len(p) <= Len(s) /\ SubSeq(s, 1, Len(p)) = p

NameFrame ==
    UNCHANGED <<closeSig, commitBatchCount, commitCounters, pc, meta, wg, remote, ctx,
                scache, slist, rd, queues, worker, fsig, fl, fbusy, left, nsess>>

\* setGlobalCache of an instance of the model.
NameCache(n, k, v) ==
    /\ gcache' = setGlobalCache(gcache, n, k, Inst(v, TRUE))
    /\ UNCHANGED <<glist, gincre, glock, last>>
    /\ NameFrame

\* isGlobalListed(model, true).
NameList(n) ==
    /\ glist' = glist \cup {n}
    /\ UNCHANGED <<gcache, gincre, glock, last>>
    /\ NameFrame

\* Incre(model, column): the counter of the key is stored or counted up.
NameIncre(n, c) ==
    /\ Has(gincre, IncreKey(n, c)) => gincre[IncreKey(n, c)] < IncreCap
    /\ gincre' = Put(gincre, IncreKey(n, c),
                     IF Has(gincre, IncreKey(n, c)) THEN gincre[IncreKey(n, c)] + 1 ELSE 1)
    /\ UNCHANGED <<gcache, glist, glock, last>>
    /\ NameFrame

\* globalLock(model).
NameLock(n) ==
    /\ glock' = glock \cup {n}
    /\ UNCHANGED <<gcache, glist, gincre, last>>
    /\ NameFrame

\* The increment keys Dump(model) deletes.
DumpIncres(key) == {gkey \in DOMAIN gincre : StartsWith(gkey, key)}

\* Dump(model) for one model.
DumpModel(g, n) ==
    /\ Idle(g)
    /\ ~Dumping
    /\ gcache' = IF Has(gcache, n) THEN Del(gcache, n) ELSE gcache
    /\ glist' = glist \ {n}
    /\ gincre' = [gkey \in (DOMAIN gincre) \ DumpIncres(n) |-> gincre[gkey]]
    /\ glock' = glock \ {n}
    /\ last' = [last EXCEPT ![g] = Api("Dump", g, 0, NoCond, TRUE, FALSE, "none", {n})]
    /\ NameFrame

InitNames == InitWith(WritableMetas, {EmptyMap}, [g \in Gids |-> 0])

NextNames ==
    \/ \E n \in Names : NameCache(n, 1, 1)
    \/ \E n \in Names : NameList(n)
    \/ \E n \in Names, c \in Columns : NameIncre(n, c)
    \/ \E n \in Names : NameLock(n)
    \/ \E n \in Names : DumpModel(1, n)

SpecNames == InitNames /\ [][NextNames]_vars

\* ============================================================= properties
\* The goroutine's call returned in this step, and it was op.
Returned(g, op) == last'[g] # last[g] /\ last'[g].op = op

ExactRead(r) == r.op = "Read" /\ r.cond = NoCond

\* The goroutine has just completed the sequence Write(x) [Delete(x)] Defer
\* Flush Watch Read(x's key); kind says whether the Delete was part of it.
ChainRead(g, kind) == last[g].chain.st = "read" /\ last[g].chain.kind = kind

\* C1: under a writable model and session, after Write(x), Defer and a Flush
\* that covers the session's queue, an exact Read of x's key in a fresh
\* session returns a valid instance whose fields equal x's.
C1_WriteDeferFlushThenRead ==
    \A g \in Gids :
        ChainRead(g, "write")
        => last[g].res = {Ret(last[g].chain.k, Inst(last[g].chain.v, TRUE))}

C1_Witness ==
    \E g \in Gids, m \in Models :
        /\ ChainRead(g, "write")
        /\ ~meta[m].cache
        /\ last[g].src = "remote"
        /\ \E r \in last[g].res : r.valid /\ r.val = last[g].chain.v

\* C4: after Write(x), Delete(x), Defer and Flush, an exact Read of x's key in
\* a fresh session returns an instance that is not valid: the remote holds no
\* row of the key and no tier serves one.
C4_WriteDeleteDeferFlushThenRead ==
    \A g \in Gids, m \in Models :
        ChainRead(g, "delete")
        => /\ last[g].res # {}
           /\ \A r \in last[g].res : ~r.valid
           /\ last[g].src = "none"
           /\ ~Has(remote[m], last[g].chain.k)

C4_Witness ==
    \E g \in Gids, m \in Models :
        /\ ChainRead(g, "delete")
        /\ meta[m].cache
        /\ last[g].rem
        /\ \A r \in last[g].res : ~r.valid

\* C5: with cache = true, after Watch, Write(x), Defer and Flush(-1), an exact
\* Read in a second session returns an instance equal to x, served by the
\* global tier with no remote read.
C5_CachedReadAfterFlushAll ==
    \A g \in Gids, m \in Models :
        (ChainRead(g, "write") /\ last[g].chain.all /\ meta[m].cache)
        => /\ last[g].res = {Ret(last[g].chain.k, Inst(last[g].chain.v, TRUE))}
           /\ last[g].src = "global"
           /\ ~last[g].rem

C5_Witness ==
    \E g \in Gids, m \in Models :
        /\ ChainRead(g, "write") /\ last[g].chain.all /\ meta[m].cache
        /\ last[g].src = "global"
        /\ last[g].res = {Ret(last[g].chain.k, Inst(last[g].chain.v, TRUE))}

\* C2: after a successful Write(u), an exact Read of u's key in the same
\* session, before Defer, is answered by the session tier: no remote call, the
\* global tier and the remote untouched, and what it returns is the session
\* object's instance, carrying u's values.
C2_ReadAfterWriteFromSession ==
    [][\A g \in Gids, m \in Models :
         (/\ last[g].op = "Write" /\ last[g].ok
          /\ Returned(g, "Read") /\ ExactRead(last'[g])
          /\ last'[g].k = last[g].k)
         => /\ last'[g].src = "session"
            /\ ~last'[g].rem
            /\ last'[g].res = last[g].res
            /\ last'[g].res = {Ret(last[g].k, SMap(g, m)[last[g].k].ptr)}
            /\ \A r \in last'[g].res : r.valid
            /\ UNCHANGED <<gcache, remote>>]_vars

C2_Witness ==
    \E g \in Gids, m \in Models :
        /\ ExactRead(last[g]) /\ last[g].ok /\ last[g].src = "session"
        /\ Has(SMap(g, m), last[g].k)
        /\ SMap(g, m)[last[g].k].create
        /\ last[g].res = {Ret(last[g].k, SMap(g, m)[last[g].k].ptr)}
        /\ Has(remote[m], last[g].k)
        /\ remote[m][last[g].k] # SMap(g, m)[last[g].k].ptr.val

\* C3: after a successful Delete(x), an exact Read of x's key in the same
\* session returns an instance that is not valid, wherever x was before.
C3_ReadAfterDeleteInvalid ==
    [][\A g \in Gids :
         (/\ last[g].op = "Delete" /\ last[g].ok
          /\ Returned(g, "Read") /\ ExactRead(last'[g])
          /\ last'[g].k = last[g].k)
         => /\ last'[g].res # {}
            /\ \A r \in last'[g].res : ~r.valid]_vars

C3_Witness ==
    \E g \in Gids, m \in Models :
        /\ ExactRead(last[g]) /\ last[g].ok
        /\ Has(SMap(g, m), last[g].k)
        /\ SMap(g, m)[last[g].k].delete
        /\ \A r \in last[g].res : ~r.valid
        /\ Has(remote[m], last[g].k)

\* C6: once a List without condition has returned in a session, the session
\* stays listed until its Defer, and every List or fuzzy Read of the session
\* is answered from the session's entries: no remote call, nothing taken from
\* the global tier.
FuzzyCall(r) == r.op = "List" \/ (r.op = "Read" /\ r.cond # NoCond)

C6_ListedSessionServesLocally ==
    [][\A g \in Gids, m \in Models :
         /\ (Returned(g, "List") /\ last'[g].ok /\ last'[g].cond = NoCond)
               => m \in slist'[g]
         /\ (m \in slist[g] /\ ~Returned(g, "Defer")) => m \in slist'[g]
         /\ (m \in slist[g] /\ last'[g] # last[g] /\ FuzzyCall(last'[g]))
               => /\ ~last'[g].rem
                  /\ last'[g].src \in {"session", "none"}
                  /\ {r \in last'[g].res : r.valid} \subseteq Rets(ValidPtrs(SMap(g, m)))
                  /\ UNCHANGED <<gcache, remote>>]_vars

C6_Witness ==
    \E g \in Gids, m \in Models :
        /\ m \in slist[g]
        /\ last[g].op = "List" /\ last[g].cond # NoCond /\ last[g].src = "session"
        /\ last[g].res # {}
        /\ \E k \in DOMAIN remote[m] :
              /\ Matchs(remote[m][k], last[g].cond)
              /\ \A r \in last[g].res : r.k # k

\* C7: a List that reaches the remote returns every valid session entry and
\* every valid global entry that matches the condition and is not among the
\* remote rows, whatever the remote returned, the empty result included.
C7_RemoteListAddsLocalEntries ==
    [][\A g \in Gids, m \in Models :
         (Returned(g, "List") /\ last'[g].rem)
         => \A k \in Keys \ RemoteRows(m, last'[g].cond) :
               (\/ k \in ValidMatch(SPtrs(SMap(g, m)), last'[g].cond)
                \/ (meta[m].cache /\ k \in ValidMatch(GMap(m), last'[g].cond)))
               => \E r \in last'[g].res : r.k = k]_vars

\* C8: every element List returns is valid and its field values satisfy the
\* condition of the call.
C8_ListedElementsMatch ==
    \A g \in Gids :
        (last[g].op = "List" /\ last[g].ok)
        => \A r \in last[g].res : r.valid /\ Matchs(r.val, last[g].cond)

Mutators == {"Write", "Delete", "Clear", "Incre"}

C10_FailedPreambleChangesNothing ==
    [][\A g \in Gids, m \in Models :
         (last'[g] # last[g] /\ last'[g].op \in Mutators /\ ~PreambleOK(g, m))
         => /\ ~last'[g].ok
            /\ last'[g].res = {}
            /\ UNCHANGED <<closeSig, commitBatchCount, commitCounters, pc, meta, wg, remote, gcache, glist, glock, gincre, ctx,
                           scache, slist, rd, queues, worker, fsig, fl, fbusy>>]_vars

C10_Witness ==
    \E g \in Gids, m \in Models :
        /\ last[g].op \in Mutators /\ ~last[g].ok
        /\ ctx[g] = "ro"
        /\ meta[m].reg /\ meta[m].writable
        /\ SMap(g, m) # EmptyMap

\* C11: the batches of one queue leave it in the order they entered it, one
\* at a time, each replayed completely before the next is taken; so after
\* Write(x), Defer, then Delete(x), Defer from the same goroutine and a Flush
\* of its queue, the remote holds no row of x.
QueueFifoStep(q) ==
    \/ queues'[q] = queues[q]
    \/ /\ queues'[q] # <<>>
       /\ queues'[q] = Append(queues[q], queues'[q][Len(queues'[q])])
    \/ /\ queues[q] # <<>>
       /\ queues'[q] = Tail(queues[q])
       /\ worker[q].todo = <<>>
       /\ worker'[q].todo = PushOrder(Head(queues[q]))

C11_SameQueueInSubmissionOrder ==
    [][/\ \A q \in Queues : QueueFifoStep(q)
       /\ \A g \in Gids, m \in Models :
             last'[g].chain.st = "reflushed" => ~Has(remote'[m], last'[g].chain.k)]_vars

C11_Witness ==
    \E g \in Gids, m \in Models :
        /\ last[g].chain.st = "reflushed"
        /\ last[g].op = "Flush" /\ last[g].ok
        /\ ~Has(remote[m], last[g].chain.k)
        /\ commitCounters[QueueOf(g)] >= 2

\* What had been submitted to each queue when the Flush call of g began.
MarkOf(g) == IF fl[g] = IdleFl THEN Submitted ELSE fl[g].mark

\* C13: when Flush(-1) returns on an open pipeline, every queue is empty and
\* every object submitted before the call began has been handled, whatever
\* other Flush calls are running.
C13_FlushAllDrainsEverything ==
    [][\A g \in Gids :
         (Returned(g, "Flush") /\ last'[g].k = -1 /\ closeSig = 0)
         => \A q \in Queues :
               /\ queues'[q] = <<>>
               /\ commitCounters'[q] >= MarkOf(g)[q]]_vars

\* C14: when Flush(gid) returns on an open pipeline, every object that was in
\* the queue of gid, or being pushed by its worker, when the call began has
\* been replayed.
C14_FlushOneDrainsItsQueue ==
    [][\A g \in Gids :
         (Returned(g, "Flush") /\ last'[g].ok /\ last'[g].k # -1)
         => LET q == QueueOf(last'[g].k)
            IN  /\ fl[g] # IdleFl
                /\ commitCounters'[q] >= fl[g].mark[q]]_vars

C14_Witness ==
    \E g \in Gids :
        /\ last[g].op = "Flush" /\ last[g].ok /\ last[g].k # -1
        /\ last[g].chain.st = "flushed"
        /\ commitCounters[QueueOf(last[g].k)] > 0
        /\ queues[QueueOf(last[g].k)] = <<>>

\* C15: a Close after the first changes nothing; once commitCloseSig is set,
\* a Defer leaves no submit behind it and touches neither the queues nor the
\* counters, and no Flush call waits.
C15_CloseIdempotentThenNoOps ==
    [][\A g \in Gids :
         /\ (Returned(g, "Close") /\ ~last'[g].ok)
            => UNCHANGED <<closeSig, queues, worker, fsig, fl, fbusy, remote,
                           commitCounters, pc>>
         /\ (closeSig = 1 /\ ctx[g] = "rw" /\ Returned(g, "Defer"))
            => /\ pc'[g] = IdlePc
               /\ UNCHANGED <<queues, fsig, commitCounters>>
         /\ (closeSig = 1 /\ fl[g] = IdleFl)
            => /\ fl'[g] = IdleFl
               /\ Returned(g, "Flush") => UNCHANGED <<queues, worker, fsig, fbusy>>
         /\ closeSig = 1 => closeSig' = 1]_vars

C15_Witness ==
    \E g \in Gids :
        /\ closeSig = 1
        /\ \A q \in Queues : worker[q].mode = "dead"
        /\ last[g].op = "Defer" /\ last[g].chain.st = "deferred"
        /\ last[g].src = "none" /\ pc[g] = IdlePc

\* C16: when Close returns, and from then on, no queue holds a batch and no
\* worker has an object left to replay, batches submitted while Close was
\* running included.
C16_CloseLeavesNothingQueued ==
    [][/\ (\A q \in Queues : worker'[q].mode = "dead")
          => \A q \in Queues : queues'[q] = <<>>
       /\ \A g \in Gids :
             (Returned(g, "Close") /\ last'[g].ok)
             => \A q \in Queues : queues'[q] = <<>> /\ worker'[q].todo = <<>>]_vars

\* C17: a submit that finds its queue full returns without blocking: the
\* batch is dropped, the queue, the workers and the remote are as before.
C17_FullQueueDropsBatch ==
    [][\A g \in Gids :
         (pc[g].st = "submit" /\ pc'[g] # pc[g])
         => /\ pc'[g] = IdlePc
            /\ Len(queues[QueueOf(g)]) >= commitBatchCount
               => /\ UNCHANGED <<queues, worker, remote, commitCounters>>
                  /\ last'[g].src = "dropped"]_vars

C17_Witness ==
    \E g \in Gids :
        /\ last[g].op = "Defer" /\ last[g].src = "dropped"
        /\ Len(queues[QueueOf(g)]) = commitBatchCount
        /\ pc[g] = IdlePc

\* A batch built by a Defer carries a delete or clear entry of m that has not
\* been replayed: it waits for its send, sits in a queue, or is being pushed.
MarkedFor(m, e) == e.m = m /\ (e.delete \/ e.clear # NoClear)
BatchMarks(m, b) == \E i \in 1..Len(b) : MarkedFor(m, b[i])
PendingDelete(m) ==
    \/ \E g \in Gids : pc[g].st = "submit" /\ BatchMarks(m, pc[g].batch)
    \/ \E q \in Queues : \E i \in 1..Len(queues[q]) : BatchMarks(m, queues[q][i])
    \/ \E q \in Queues : BatchMarks(m, worker[q].todo)

\* C12: no Read or List issues its remote call for m while a delete or clear
\* entry of m, put into a batch by a Defer, has not been replayed yet.
C12_NoRemoteReadDuringDeleteCommit ==
    [][\A g \in Gids, m \in Models :
         ((Returned(g, "Read") \/ Returned(g, "List")) /\ last'[g].rem)
         => ~PendingDelete(m)]_vars

\* The Incre calls that have returned, when every call made succeeds.
RECURSIVE SumOver(_, _)
SumOver(f, S) ==
    IF S = {} THEN 0 ELSE LET x == CHOOSE y \in S : TRUE IN f[x] + SumOver(f, S \ {x})

IncreReturned(lf, p) ==
    SumOver([g \in Gids |-> (IncreOps - lf[g]) - (IF p[g].st = "incre" THEN 1 ELSE 0)], Gids)

\* C18: with the remote maximum at M, every Incre of delta 1 returns the
\* value after the last one returned by any session, M+1 first: the N calls
\* made so far returned M+1 .. M+N, and one session sees increasing values.
C18_IncreDistinctNoGap ==
    [][\A g \in Gids, m \in Models :
         /\ (Returned(g, "Incre") /\ last'[g].ok)
            => /\ last'[g].k = (IF Has(gincre, m) THEN gincre[m] ELSE RemoteMax(m)) + 1
               /\ gincre'[m] = last'[g].k
               /\ (last[g].op = "Incre" /\ last[g].ok) => last'[g].k > last[g].k
         /\ Has(gincre', m) => gincre'[m] = RemoteMax(m) + IncreReturned(left', pc')
         /\ (~Has(gincre', m)) => IncreReturned(left', pc') = 0]_vars

C18_Witness ==
    \E m \in Models :
        /\ RemoteMax(m) > 0
        /\ Has(gincre, m) /\ gincre[m] = RemoteMax(m) + NumG * IncreOps
        /\ \A g \in Gids : last[g].op = "Incre" /\ last[g].ok
        /\ \E g \in Gids : last[g].k = gincre[m] /\ last[g].rem = FALSE
        /\ \E g \in Gids : last[g].k = gincre[m] - 1

\* C19: when Dump() returns, the global data map, the global listed map, the
\* increment map and the lock map are empty, and every caller that was parked
\* on a model lock has been released.
C19_DumpLeavesGlobalsEmpty ==
    [][\A g \in Gids :
         Returned(g, "Dump")
         => /\ gcache' = EmptyMap
            /\ glist' = {}
            /\ gincre' = EmptyMap
            /\ glock' = {}
            /\ \A h \in Gids : rd'[h] # NoRd => rd'[h].rel]_vars

\* C20: the Defer that ends a session, writable or read-only, removes the
\* goroutine's context, its session data map and its session listed map, and
\* nothing is registered for the goroutine until its next Watch.
C20_DeferRemovesSession ==
    [][\A g \in Gids :
         /\ (ctx[g] # "none" /\ Returned(g, "Defer")) => ctx'[g] = "none"
         /\ ctx'[g] = "none"
            => /\ \A m \in Models : scache'[g][m] = EmptyMap
               /\ slist'[g] = {}]_vars

C20_Witness ==
    \E g \in Gids, h \in Gids :
        /\ g # h
        /\ last[g].op = "Defer" /\ last[g].ok /\ last[g].chain.st = "deferred"
        /\ ctx[g] = "none" /\ slist[g] = {}
        /\ \A m \in Models : scache[g][m] = EmptyMap
        /\ last[h].op = "Defer" /\ ~last[h].ok /\ last[h].n < EnvOps
        /\ ctx[h] = "none" /\ slist[h] = {}

\* The entries of a batch for the row k of m.
EntriesFor(b, m, k) == {i \in 1..Len(b) : b[i].m = m /\ b[i].k = k}

\* C21: when a writable session whose last call on x was Write(x) is deferred
\* on an open pipeline, the batch handed to submit carries exactly one entry
\* for x, a create entry with x's values, and the send puts that batch, as it
\* is, at the end of the goroutine's queue when the queue has room.
C21_WriteYieldsOneCreateEntry ==
    [][\A g \in Gids, m \in Models :
         /\ (/\ ctx[g] = "rw" /\ Returned(g, "Defer") /\ closeSig = 0
             /\ last[g].chain.st = "written" /\ last[g].chain.kind = "write")
            => /\ pc'[g].st = "submit"
               /\ Cardinality(EntriesFor(pc'[g].batch, m, last[g].chain.k)) = 1
               /\ \A i \in EntriesFor(pc'[g].batch, m, last[g].chain.k) :
                     /\ pc'[g].batch[i].create
                     /\ ~pc'[g].batch[i].delete
                     /\ pc'[g].batch[i].clear = NoClear
                     /\ pc'[g].batch[i].val = last[g].chain.v
         /\ (pc[g].st = "submit" /\ pc'[g] # pc[g]
             /\ Len(queues[QueueOf(g)]) < commitBatchCount)
            => queues' = [queues EXCEPT ![QueueOf(g)] = Append(@, pc[g].batch)]]_vars

C21_Witness ==
    \E g \in Gids, m \in Models, q \in Queues :
        /\ last[g].op = "Defer" /\ last[g].src = "queued"
        /\ last[g].chain.st = "deferred" /\ last[g].chain.kind = "write"
        /\ queues[q] # <<>>
        /\ Len(Head(queues[q])) = 2
        /\ \E i \in EntriesFor(Head(queues[q]), m, last[g].chain.k) :
              Head(queues[q])[i].create /\ Head(queues[q])[i].g = g

\* A Read or List of g on a cached model m returned in this step.
CachedLookup(g, m, op) == Returned(g, op) /\ last'[g].ok /\ meta[m].cache

\* What a lookup returns of the global tier is a clone of a valid entry: an
\* element that the session did not hold and the global tier holds is valid and
\* equal to the global entry, or, for a Read, the caller's own instance marked
\* invalid because the global entry is.
NoInvalidGlobalReturned(g, m) ==
    /\ (CachedLookup(g, m, "Read") /\ last'[g].src = "global")
       => \A r \in last'[g].res :
             /\ Has(GMap(m), r.k)
             /\ r.valid = GMap(m)[r.k].valid
             /\ r.valid => r.val = GMap(m)[r.k].val
    /\ CachedLookup(g, m, "List")
       => \A r \in last'[g].res :
             (~Has(SMap(g, m), r.k) /\ Has(GMap(m), r.k))
             => /\ GMap(m)[r.k].valid
                /\ r.valid
                /\ r.val = GMap(m)[r.k].val

\* An exact Read, made in one step, of a key the session does not hold and
\* whose global entry is marked invalid.
ReadOfSoftDeleted(g, m) ==
    /\ CachedLookup(g, m, "Read") /\ ExactRead(last'[g])
    /\ rd[g] = NoRd
    /\ ~Has(SMap(g, m), last'[g].k)
    /\ Has(GMap(m), last'[g].k)
    /\ ~GMap(m)[last'[g].k].valid

SoftDeleted(g, m, k) ==
    \/ Has(SMap(g, m), k) /\ ~SMap(g, m)[k].ptr.valid
    \/ meta[m].cache /\ Has(GMap(m), k) /\ ~GMap(m)[k].valid

\* C23: whichever tier answers, Count counts no row that is marked invalid in
\* the calling session or in the global tier.
C23_CountSkipsSoftDeleted ==
    [][\A g \in Gids, m \in Models :
         (Returned(g, "Count") /\ last'[g].ok)
         => /\ last'[g].k = Cardinality(last'[g].res)
            /\ \A r \in last'[g].res : ~SoftDeleted(g, m, r.k)]_vars

\* C24: after a successful Write(x) on a cached model the global tier holds,
\* under x's key, a valid entry with x's values, whatever entry it held for
\* the key before.
C24_WriteReplacesGlobalEntry ==
    [][\A g \in Gids, m \in Models :
         (Returned(g, "Write") /\ last'[g].ok /\ meta[m].cache)
         => \A r \in last'[g].res :
               /\ Has(gcache', m)
               /\ Has(gcache'[m], r.k)
               /\ gcache'[m][r.k] = Inst(r.val, TRUE)]_vars

\* The place of an entry in the replay of its batch.
Rank(e) == IF e.clear # NoClear THEN 0 ELSE IF e.delete THEN 1 ELSE 2

\* How many objects of the sequence equal e.
Times(seq, e) == Cardinality({i \in 1..Len(seq) : seq[i] = e})

\* C25: the worker replays one batch at a time, every object of it once; the
\* object it applies to the remote is never a delete while a clear of the
\* batch is still to come, nor a create or update while a clear or a delete is.
C25_ClearThenDeleteThenWrite ==
    [][\A q \in Queues :
         /\ (worker[q].todo = <<>> /\ worker'[q].todo # <<>>)
            => /\ queues[q] # <<>>
               /\ Len(worker'[q].todo) = Len(Head(queues[q]))
               /\ \A i \in 1..Len(Head(queues[q])) :
                     Times(worker'[q].todo, Head(queues[q])[i]) = 1
         /\ (worker[q].todo # <<>> /\ worker'[q].todo # worker[q].todo)
            => LET e == Head(worker[q].todo)
               IN  /\ worker'[q].todo = Tail(worker[q].todo)
                   /\ remote'[e.m] = HandleRemote(remote[e.m], e)
                   /\ \A i \in 1..Len(worker'[q].todo) :
                         Rank(worker'[q].todo[i]) >= Rank(e)]_vars

C25_Witness ==
    \E q \in Queues :
        /\ commitCounters[q] = 2
        /\ Len(worker[q].todo) = 1
        /\ Rank(worker[q].todo[1]) = 2
        /\ worker[q].todo[1].create
        /\ ~Has(remote[TheModel], worker[q].todo[1].k)

\* The worker of some queue replays, in this step, a delete or clear entry of m:
\* the remote call and, after it, the posthandler with its globalUnlock.
ReplaysMarked(m) ==
    \E q \in Queues :
        /\ worker[q].todo # <<>>
        /\ MarkedFor(m, Head(worker[q].todo))
        /\ worker'[q].todo = Tail(worker[q].todo)
        /\ remote'[m] = HandleRemote(remote[m], Head(worker[q].todo))

\* C26: a Defer whose batch carries a delete or clear entry of m has taken the
\* lock of m when it returns, before the batch is sent to its queue; the lock
\* is still there when the worker makes the remote call of any such entry, and
\* the unlock comes in that step, after the call.
C26_LockHeldAroundReplay ==
    [][\A m \in Models :
         /\ \A g \in Gids :
               (ctx[g] = "rw" /\ Returned(g, "Defer") /\ pc'[g].st = "submit"
                /\ BatchMarks(m, pc'[g].batch))
               => /\ m \in glock'
                  /\ UNCHANGED <<queues, worker, remote>>
         /\ ReplaysMarked(m) => (m \in glock /\ m \notin glock')]_vars

\* C27: a lock record of m is in globalLockMap only while a delete or clear
\* entry of m, put into a batch by a Defer, waits for its replay and release
\* by a commit worker.
C27_LockOnlyWhilePending ==
    \A m \in Models : m \in glock => PendingDelete(m)

\* The rows of m in the remote store that no tier marks as soft-deleted.
LiveRows(m) ==
    {k \in DOMAIN remote[m] : \A g \in Gids : ~SoftDeleted(g, m, k)}

SessionListedComplete(g, m) ==
    m \in slist[g] => \A k \in LiveRows(m) : Has(SMap(g, m), k)

GlobalListedComplete(m) ==
    m \in glist => \A k \in LiveRows(m) : Has(GMap(m), k)

\* C28: while the listed flag of a session, or of the global tier, is set for
\* m, that scope holds an entry for every row of m that is in the remote store
\* and is not soft-deleted.
C28_ListedScopeHoldsEveryRow ==
    \A m \in Models :
        /\ GlobalListedComplete(m)
        /\ \A g \in Gids : SessionListedComplete(g, m)

\* The create and update entries of the batch that the Defer of g builds for
\* the cached model m.
WriteEntries(g, m) ==
    {e \in {BatchOf(g, m)[i] : i \in 1..Len(BatchOf(g, m))} : Rank(e) = 2}

WritableDefer(g, m) == ctx[g] = "rw" /\ Returned(g, "Defer") /\ meta[m].cache

\* C29, as stated: when the Defer of a writable session returns, the global
\* tier holds, for every create or update entry of its batch on a cached
\* model, a clone equal to the session's instance.
C29_DeferPutsWritesInGlobal ==
    [][\A g \in Gids, m \in Models :
         WritableDefer(g, m)
         => \A e \in WriteEntries(g, m) :
               /\ Has(gcache', m)
               /\ Has(gcache'[m], e.k)
               /\ gcache'[m][e.k] = Inst(e.val, TRUE)]_vars

\* C29, amended: when the Defer of a writable session returns, a global entry
\* that existed for the key of a create or update entry of its batch has been
\* replaced by a clone equal to the session's instance, before the batch is
\* replayed; for a key the global tier did not hold, Defer adds no entry.
C29_DeferReplacesCachedWrites ==
    [][\A g \in Gids, m \in Models :
         WritableDefer(g, m)
         => /\ UNCHANGED <<remote, queues, worker>>
            /\ \A e \in WriteEntries(g, m) :
                  IF Has(GMap(m), e.k)
                  THEN gcache'[m][e.k] = Inst(e.val, TRUE)
                  ELSE ~Has(gcache', m) \/ ~Has(gcache'[m], e.k)]_vars

C29_Witness ==
    \E g \in Gids, m \in Models :
        /\ last[g].op = "Defer" /\ last[g].ok /\ pc[g].st = "submit"
        /\ meta[m].cache
        /\ \E i \in 1..Len(pc[g].batch) :
              LET e == pc[g].batch[i]
              IN  /\ Rank(e) = 2 /\ ~e.create
                  /\ Has(GMap(m), e.k) /\ GMap(m)[e.k] = Inst(e.val, TRUE)
                  /\ Has(remote[m], e.k) /\ remote[m][e.k] # e.val

\* C30: in sessions that obtain their instances only through Read and List
\* with writable = false, the batch that Defer builds holds no update entry,
\* however the caller mutated the instances and whichever tier served them.
C30_ReadOnlyNeverUpdates ==
    [][\A g \in Gids, m \in Models :
         (ctx[g] = "rw" /\ Returned(g, "Defer"))
         => {e \in WriteEntries(g, m) : ~e.create} = {}]_vars

\* A session object that reaches the comparing branch of Defer: no create
\* mark, an instance that is valid (neither deleted nor cleared), no clear mark,
\* and not handed out read-only.
PlainEntry(sobj) ==
    /\ ~sobj.create /\ ~sobj.delete /\ sobj.clear = NoClear
    /\ sobj.ptr.valid /\ sobj.write # 1

\* The batch holds exactly one object for k, an update with the instance's
\* values.
OneUpdateFor(b, m, k, sobj) ==
    /\ Cardinality(EntriesFor(b, m, k)) = 1
    /\ \A i \in EntriesFor(b, m, k) :
          /\ ~b[i].create /\ ~b[i].delete /\ b[i].clear = NoClear
          /\ b[i].val = sobj.ptr.val

\* C31: at the Defer of a writable session, a session object of a writable
\* model that is not create, deleted, cleared or read-only yields exactly one
\* update entry when its instance differs from its snapshot, and no entry when
\* it equals it.
C31_PlainEntryUpdatesIffChanged ==
    [][\A g \in Gids, m \in Models :
         (ctx[g] = "rw" /\ Returned(g, "Defer") /\ meta[m].writable)
         => \A k \in DOMAIN SMap(g, m) :
               PlainEntry(SMap(g, m)[k])
               => IF SMap(g, m)[k].ptr.val # SMap(g, m)[k].raw
                  THEN OneUpdateFor(BatchOf(g, m), m, k, SMap(g, m)[k])
                  ELSE EntriesFor(BatchOf(g, m), m, k) = {}]_vars

\* A Defer has just handed over a batch with an update of a row that the
\* session read and changed, next to a row it read and left alone.
C31_Witness ==
    \E g \in Gids, m \in Models :
        /\ last[g].op = "Defer" /\ last[g].ok /\ pc[g].st = "submit"
        /\ Len(pc[g].batch) = 1
        /\ LET e == pc[g].batch[1]
           IN  /\ e.m = m /\ ~e.create /\ ~e.delete /\ e.clear = NoClear
               /\ Has(remote[m], e.k) /\ remote[m][e.k] # e.val

\* Every call the first goroutine made in its session was a Write that put a
\* new entry into the session, the last one the entry of key last[g].k.
EveryCallInserted(g, m) ==
    /\ g = 1 /\ last[g].op = "Write" /\ last[g].ok
    /\ Cardinality(DOMAIN SMap(g, m)) = OrderOps - left[g]

\* C32: the batch that Defer builds lists the entries in the order in which
\* they were inserted into the session: the entry inserted last is its last
\* object.
C32_BatchInInsertionOrder ==
    [][\A g \in Gids, m \in Models :
         (/\ ctx[g] = "rw" /\ Returned(g, "Defer") /\ pc'[g].st = "submit"
          /\ EveryCallInserted(g, m))
         => pc'[g].batch[Len(pc'[g].batch)].k = last[g].k]_vars

\* C33: a session entry object has one owner at a time: no session map holds
\* an object that a batch under replay still lists, and no two session entries
\* are the same object.
C33_EntryObjectHasOneOwner ==
    /\ \A q \in Queues :
          InPush(q) => \A id \in SeqIds(worker[q].todo) : PoolHolders(id) = {}
    /\ \A id \in ObjIds : Cardinality(PoolHolders(id)) <= 1

\* Every session was deferred, nothing waits in a queue or is being replayed,
\* and a Flush(-1) has returned.
Quiescent ==
    /\ \A g \in Gids : ctx[g] = "none" /\ Idle(g) /\ last[g].op \in {"Defer", "Flush"}
    /\ \A q \in Queues : queues[q] = <<>> /\ worker[q].mode = "idle" /\ fsig[q] = <<>>
    /\ \E g \in Gids : last[g].op = "Flush" /\ last[g].k = -1 /\ last[g].ok

\* C34: at quiescence, with no batch dropped, every valid entry of the global
\* tier of a cached model equals the row the remote stores under its key.
C34_GlobalEqualsRemoteAtQuiescence ==
    Quiescent
    => \A m \in Models : meta[m].cache
          => \A k \in DOMAIN GMap(m) :
                GMap(m)[k].valid
                => Has(remote[m], k) /\ remote[m][k] = GMap(m)[k].val

\* C35: no WaitGroup of the lock map is released more often than it was
\* acquired: its counter is never negative.
C35_LockCounterNeverNegative == \A i \in WgIds : wg.cnt[i] >= 0

\* C36: with the workers running, every Read or List parked in globalWait is
\* eventually released.
C36_ParkedReaderIsReleased == \A g \in Gids : (rd[g] # NoRd) ~> (rd[g] = NoRd)

\* C37: every call to Flush eventually returns.
C37_FlushReturns == \A g \in Gids : (fl[g] # IdleFl) ~> (fl[g] = IdleFl)

\* C38: after Write(x), a Clear whose condition x matches, Defer and Flush in
\* one session, the remote does not hold the row x.
C38_ClearedCreateNotInserted ==
    \A g \in Gids, m \in Models :
        (last[g].op = "Flush" /\ last[g].chain.st = "flushed" /\ last[g].chain.kind = "clear")
        => ~(Has(remote[m], last[g].chain.k)
             /\ remote[m][last[g].chain.k] = last[g].chain.v)

\* C39: a Clear leaves every session entry whose instance does not match the
\* condition as it was: as valid as before, with its create and delete marks.
C39_ClearKeepsNonMatching ==
    [][\A g \in Gids, m \in Models :
          (Returned(g, "Clear") /\ last'[g].ok)
          => \A k \in DOMAIN SMap(g, m) :
                ~Matchs(SMap(g, m)[k].ptr.val, last'[g].cond)
                => /\ Has(scache'[g][m], k)
                   /\ scache'[g][m][k].ptr.valid = SMap(g, m)[k].ptr.valid
                   /\ scache'[g][m][k].create = SMap(g, m)[k].create
                   /\ scache'[g][m][k].delete = SMap(g, m)[k].delete]_vars

\* C40: Dump(m) for one model leaves the global data, the listed flag, the
\* increment counters and the lock of every other model as they were.
C40_DumpLeavesOtherModels ==
    [][\A g \in Gids, n \in Names :
          (Returned(g, "Dump") /\ last'[g].res = {n})
          => \A o \in Names \ {n} :
                /\ Has(gcache, o) <=> Has(gcache', o)
                /\ Has(gcache, o) => gcache'[o] = gcache[o]
                /\ o \in glist <=> o \in glist'
                /\ o \in glock <=> o \in glock'
                /\ \A c \in Columns :
                      /\ Has(gincre, IncreKey(o, c)) <=> Has(gincre', IncreKey(o, c))
                      /\ Has(gincre, IncreKey(o, c))
                            => gincre'[IncreKey(o, c)] = gincre[IncreKey(o, c)]]_vars
====
